---- MODULE Spec2Model ----
(***************************************************************************)
(* Tool-server orchestration and dynamic model registry of mcp-chat.       *)
(*                                                                         *)
(* Three parts, each with its own specification over the shared state:     *)
(*   SpecConn  lib/mcp-client.ts initializeMCPClients / cleanupMCPClients   *)
(*             and the chat route's onFinish and abort listener            *)
(*             (src/docs/mcp-server-db.md)                                 *)
(*   SpecReg   ai/providers.ts: refreshModels, refreshModelsServerSide,     *)
(*             getLanguageModel (src/ai/providers.ts)                      *)
(*   SpecUI    MCPServerManager: toggleServer, toggleServerStatus,          *)
(*             restartServer (src/unnamed/part_000)                        *)
(***************************************************************************)
EXTENDS Integers, Sequences, FiniteSets, TLC

\* ------------------------------------------------------------------ bounds
MaxServers == 2
MaxTools == 2
MaxEndpoints == 1
MaxTasks == 1
MaxUiServers == 2
MaxInFlight == 2
MaxModels == 2
MaxTogglers == 2
ToolNames == 1..MaxTools

VARIABLES
    \* ---- one conversational turn (POST /api/chat + initializeMCPClients)
    mcpServers,         \* the request's config list: what each server will do
    initPc,             \* position inside initializeMCPClients
    initIdx,            \* index of the config the for-loop is at
    mcpClients,         \* const mcpClients: any[] (indexes of opened clients)
    tools,              \* let tools = {} : tool name -> descriptor (its server)
    initRaised,         \* initializeMCPClients rejected
    initListeners,      \* abort listeners registered by initializeMCPClients
    routeListener,      \* the route's own abort listener is registered
    aborted,            \* req.signal has fired
    responseCompleted,  \* let responseCompleted (route)
    turnPc,             \* position of the route handler
    disconnects,        \* per opened client: times disconnect() was invoked
    cleanupCalls,       \* times the returned cleanup closure was invoked
    cleanupRaised       \* a call of cleanupMCPClients rejected

VARIABLES
    \* ---- the model registry (one instance of the module ai/providers.ts)
    isBrowser,          \* typeof window !== 'undefined' where the module runs
    languageModels,     \* const languageModels, with its key order
    modelDetails,       \* export const modelDetails
    modelEndpointMap,   \* const modelEndpointMap
    refreshPc,          \* per refresh call: where it is
    fetched,            \* per refresh call: the model list it fetched
    committed,          \* the registry as the last completed operation left it
    sawPartial,         \* some resolve ran on a registry other than committed
    gotUndefined,       \* some resolve returned undefined
    callOrder,          \* the refreshes under way, in the order of their calls
    superseded          \* those under way called before one that has returned

VARIABLES
    \* ---- the server list of MCPServerManager and the status tracker
    status,             \* server.status of each configured server
    servers,            \* the ids of the configured servers
    idsUsed,            \* how many ids addServer has handed out
    selectedServers,    \* the selected server ids, an array
    pending,            \* startServer/stopServer calls in flight, by caller
    timers,             \* restartServer's setTimeout callbacks not yet run
    restartObs          \* statuses seen since an undisturbed restart began

VARIABLES
    \* ---- one call of discoverModels in the local-models API
    probe,              \* what the endpoint does: baseUrl, the two probes
    discPc,             \* position of the call
    discResult          \* what the call gave its caller

VARIABLES
    \* ---- one request to POST /api/local-models/[id]/models
    routePc,            \* where the route handler is
    routeCaller,        \* who sent the request
    routeStatus,        \* the status of the response, 0 before it is sent
    storedModels        \* available_models of the endpoint's row

VARIABLES
    \* ---- the is_active column of one endpoint and the calls that toggle it
    rowIsActive,        \* is_active of the endpoint's row
    originalActive,     \* is_active before any toggle
    pageIsActive,       \* model.isActive in the page's localModels state
    togglePc,           \* where each toggle is
    toggleSaw,          \* the isActive each toggle read
    applied             \* the number of writes applied to the row

VARIABLES
    \* ---- one call of the page's fetchOllamaModels
    fetchPc,            \* idle, or done when the call has returned
    fetchResult         \* the list it returned

VARIABLES
    \* ---- one request to POST /api/local-models
    createPc,           \* where the route handler is
    createStatus,       \* the status of the response, 0 before it is sent
    createdRow,         \* the row the request inserted
    insertFailed,       \* the insert threw
    \* ---- ModelPicker ----
    selectedModel,      \* the selectedModel prop, the parent's state
    modelIds,           \* the picker's modelIds state
    pickerPc,           \* "unmounted", "rendered" (effects to run), "idle"
    pickerDid           \* what the picker did last

connVars == <<mcpServers, initPc, initIdx, mcpClients, tools, initRaised,
              initListeners, routeListener, aborted, responseCompleted,
              turnPc, disconnects, cleanupCalls, cleanupRaised>>

regVars == <<isBrowser, languageModels, modelDetails, modelEndpointMap,
             refreshPc, fetched, committed, sawPartial, gotUndefined,
             callOrder, superseded>>

uiVars == <<status, servers, idsUsed, selectedServers, pending, timers,
           restartObs>>

routeVars == <<routePc, routeCaller, routeStatus, storedModels>>

toggleVars == <<rowIsActive, originalActive, pageIsActive, togglePc,
                toggleSaw, applied>>

fetchVars == <<fetchPc, fetchResult>>

createVars == <<createPc, createStatus, createdRow, insertFailed>>

pickerVars == <<selectedModel, modelIds, pickerPc, pickerDid>>

pageVars == <<toggleVars, fetchVars, createVars, pickerVars>>

apiVars == <<probe, discPc, discResult, routeVars, pageVars>>

vars == <<connVars, regVars, uiVars, apiVars>>

\* ---------------------------------------------------------------- helpers
Range(s) == {s[k] : k \in 1..Len(s)}

SeqsUpTo(S, n) == UNION {[1..k -> S] : k \in 0..n}

\* ======================================================================
\* ConnectionManager: initializeMCPClients
\* ======================================================================
\* What a configured server does when contacted: createMCPClient succeeds,
\* throws or never settles, and client.tools() succeeds (with this catalog),
\* throws or never settles.
Outcomes == {"ok", "connectFail", "toolsFail", "connectHangs", "toolsHangs"}

\* the outcomes in which createMCPClient gave a client
Opens(outcome) == outcome \in {"ok", "toolsFail", "toolsHangs"}

\* disconnectFails: client.disconnect() of the opened client rejects
ServerBehaviours ==
    {b \in [outcome : Outcomes, catalog : SUBSET ToolNames,
            disconnectFails : BOOLEAN] :
        ~Opens(b.outcome) => ~b.disconnectFails}

MergeToolsFirstWins(t, i, cat) ==
    [n \in (DOMAIN t) \cup cat |-> IF n \in DOMAIN t THEN t[n] ELSE i]

\* tools = { ...tools, ...mcptools }: the later spread wins on equal names.
\* The descriptor of a tool is identified by the index of its server.
MergeTools(t, i, cat) ==
    [n \in (DOMAIN t) \cup cat |-> IF n \in cat THEN i ELSE t[n]]

\* } catch (error) { console.error(...) }: the loop's catch swallows the error
\* of one server, so the rejection flag of the call stays as it was.
CatchRethrows(raised) == TRUE
CatchInLoop(raised) == raised

ListenersAlways(n) == n + 1

\* The for-loop moves to the next config, or leaves the loop.
NextConfig(i) == IF i + 1 > Len(mcpServers) THEN "register" ELSE "create"

InitConn ==
    /\ mcpServers \in SeqsUpTo(ServerBehaviours, MaxServers)
    /\ initPc = IF Len(mcpServers) = 0 THEN "register" ELSE "create"
    /\ initIdx = 1
    /\ mcpClients = <<>>
    /\ tools = <<>>
    /\ initRaised = FALSE
    /\ initListeners = 0
    /\ routeListener = FALSE
    /\ aborted = FALSE
    /\ responseCompleted = FALSE
    /\ turnPc = "init"
    /\ disconnects = [i \in {} |-> 0]
    /\ cleanupCalls = 0
    /\ cleanupRaised = FALSE

\* const mcpClient = await createMCPClient({ transport }); mcpClients.push(..)
\* A throw lands in the loop's catch, which logs and continues; a connection
\* that never settles leaves the await pending.
CreateClient ==
    /\ initPc = "create"
    /\ mcpServers[initIdx].outcome # "connectHangs"
    /\ IF mcpServers[initIdx].outcome = "connectFail"
         THEN /\ initRaised' = CatchInLoop(initRaised)
              /\ initPc' = IF initRaised' THEN "raised"
                                          ELSE NextConfig(initIdx)
              /\ initIdx' = initIdx + 1
              /\ UNCHANGED <<mcpClients, disconnects>>
         ELSE /\ mcpClients' = Append(mcpClients, initIdx)
              /\ UNCHANGED initRaised
              /\ disconnects' = [c \in (DOMAIN disconnects) \cup {initIdx} |->
                                   IF c = initIdx THEN 0 ELSE disconnects[c]]
              /\ initPc' = "tools"
              /\ UNCHANGED initIdx
    /\ UNCHANGED <<mcpServers, tools, initListeners, routeListener,
                   aborted, responseCompleted, turnPc, cleanupCalls,
                   cleanupRaised>>
    /\ UNCHANGED <<regVars, uiVars, apiVars>>

\* const mcptools = await mcpClient.tools(); tools = {...tools, ...mcptools}
FetchTools ==
    /\ initPc = "tools"
    /\ mcpServers[initIdx].outcome # "toolsHangs"
    /\ IF mcpServers[initIdx].outcome = "toolsFail"
         THEN /\ initRaised' = CatchInLoop(initRaised)
              /\ UNCHANGED tools
         ELSE /\ tools' = MergeTools(tools, initIdx,
                                     mcpServers[initIdx].catalog)
              /\ UNCHANGED initRaised
    /\ initPc' = IF initRaised' THEN "raised" ELSE NextConfig(initIdx)
    /\ initIdx' = initIdx + 1
    /\ UNCHANGED <<mcpServers, mcpClients, initListeners,
                   routeListener, aborted, responseCompleted, turnPc,
                   disconnects, cleanupCalls, cleanupRaised>>
    /\ UNCHANGED <<regVars, uiVars, apiVars>>

\* if (abortSignal && mcpClients.length > 0) abortSignal.addEventListener(..)
ListenersAfterInit(n) == IF Len(mcpClients) > 0 THEN n + 1 ELSE n

\* initializeMCPClients registers its listener and returns; the route resumes,
\* calls streamText and registers its own abort listener in the same run.
InitReturn ==
    /\ initPc = "register"
    /\ initListeners' = ListenersAfterInit(initListeners)
    /\ initPc' = "returned"
    /\ routeListener' = TRUE
    /\ turnPc' = "stream"
    /\ UNCHANGED <<mcpServers, initIdx, mcpClients, tools, initRaised, aborted,
                   responseCompleted, disconnects, cleanupCalls,
                   cleanupRaised>>
    /\ UNCHANGED <<regVars, uiVars, apiVars>>

CleanupMCPClientsWithTools(d, k) ==
    [c \in DOMAIN d |-> IF mcpServers[c].outcome = "ok" THEN d[c] + k ELSE d[c]]

\* cleanupMCPClients(clients), run k times: clients.map(...) invokes
\* client.disconnect() on every client of the array, with no guard.
CleanupMCPClients(d, k) == [c \in DOMAIN d |-> d[c] + k]

DisconnectRethrows(failed) == failed

\* try { await client.disconnect?.() } catch (error) { console.error(...) }:
\* whether the rejection of one disconnect leaves the client's callback
DisconnectCatch(failed) == FALSE

\* Promise.all rejects when the callback of some client rejects
CleanupRejects(k) ==
    /\ k > 0
    /\ \E j \in 1..Len(mcpClients) :
          DisconnectCatch(mcpServers[mcpClients[j]].disconnectFails)

\* req.signal fires.  Listeners registered before the abort run, in order:
\* the one of initializeMCPClients calls cleanupMCPClients(mcpClients); the
\* route's calls cleanup() unless responseCompleted.
Abort ==
    /\ ~aborted
    /\ aborted' = TRUE
    /\ LET viaRoute == IF routeListener /\ ~responseCompleted THEN 1 ELSE 0
       IN  /\ disconnects' = CleanupMCPClients(disconnects,
                                               initListeners + viaRoute)
           /\ cleanupCalls' = cleanupCalls + viaRoute
           /\ cleanupRaised' =
                 (cleanupRaised \/ CleanupRejects(initListeners + viaRoute))
    /\ UNCHANGED <<mcpServers, initPc, initIdx, mcpClients, tools, initRaised,
                   initListeners, routeListener, responseCompleted, turnPc>>
    /\ UNCHANGED <<regVars, uiVars, apiVars>>

\* onFinish: responseCompleted = true, then the awaited saves.
FinishBegin ==
    /\ turnPc = "stream"
    /\ responseCompleted' = TRUE
    /\ turnPc' = "saving"
    /\ UNCHANGED <<mcpServers, initPc, initIdx, mcpClients, tools, initRaised,
                   initListeners, routeListener, aborted, disconnects,
                   cleanupCalls, cleanupRaised>>
    /\ UNCHANGED <<regVars, uiVars, apiVars>>

\* onFinish, after the saves: await cleanup()
FinishCleanup ==
    /\ turnPc = "saving"
    /\ disconnects' = CleanupMCPClients(disconnects, 1)
    /\ cleanupCalls' = cleanupCalls + 1
    /\ cleanupRaised' = (cleanupRaised \/ CleanupRejects(1))
    /\ turnPc' = "done"
    /\ UNCHANGED <<mcpServers, initPc, initIdx, mcpClients, tools, initRaised,
                   initListeners, routeListener, aborted, responseCompleted>>
    /\ UNCHANGED <<regVars, uiVars, apiVars>>

NextConn ==
    \/ CreateClient
    \/ FetchTools
    \/ InitReturn
    \/ Abort
    \/ FinishBegin
    \/ FinishCleanup

\* ======================================================================
\* ModelRegistry: ai/providers.ts
\* ======================================================================
\* Identifiers are JavaScript strings.  The state holds them as strings; the
\* string operations of the code (includes, startsWith, toLowerCase) are
\* computed on their characters.
Chars(id) ==
    CASE id = "qwen3-32b"   -> <<"q","w","e","n","3","-","3","2","b">>
      [] id = "grok-3-mini" -> <<"g","r","o","k","-","3","-","m","i","n","i">>
      [] id = "kimi-k2"     -> <<"k","i","m","i","-","k","2">>
      [] id = "llama4"      -> <<"l","l","a","m","a","4">>
      [] id = "llama3"      -> <<"l","l","a","m","a","3">>
      [] id = "m1"          -> <<"m","1">>
      [] id = "M1"          -> <<"M","1">>
      [] id = "Grok"        -> <<"G","r","o","k">>
      [] id = "Qwen2"       -> <<"Q","w","e","n","2">>
      [] id = "qwen-x"      -> <<"q","w","e","n","-","x">>
      [] id = "kimi"        -> <<"k","i","m","i">>
      [] id = "qwen"        -> <<"q","w","e","n">>
      [] id = "grok"        -> <<"g","r","o","k">>
      [] id = "llama"       -> <<"l","l","a","m","a">>
      [] id = "zzz"         -> <<"z","z","z">>
      [] id = ""            -> <<>>

\* String.prototype.toLowerCase, one character
LowerChar(c) ==
    CASE c = "Q" -> "q"
      [] c = "M" -> "m"
      [] c = "G" -> "g"
      [] OTHER -> c

ToLowerCase(cs) == [k \in 1..Len(cs) |-> LowerChar(cs[k])]

\* String.prototype.startsWith / includes on character sequences
StartsWith(cs, pre) ==
    /\ Len(pre) <= Len(cs)
    /\ \A k \in 1..Len(pre) : cs[k] = pre[k]

Includes(cs, sub) ==
    \E off \in 0..(Len(cs) - Len(sub)) :
        \A k \in 1..Len(sub) : cs[off + k] = sub[k]

\* const baseLanguageModels, in the order of the object literal
BaseIds == <<"qwen3-32b", "grok-3-mini", "kimi-k2", "llama4">>

\* export const defaultModel: modelID = "kimi-k2"
defaultModel == "kimi-k2"

\* The model lists discovery may have stored for an endpoint
\* (availableModels): none, a plain name, a name that is the prefix of a
\* built-in identifier, a name equal to a built-in identifier.
ModelLists == {<<>>, <<"m1">>, <<"llama", "m1">>, <<"llama4">>}

\* Identifiers a caller may ask model.languageModel for.
RequestIds == {"kimi-k2", "m1", "Grok", "qwen-x", "kimi", "zzz"}

Undefined == "undefined"

\* no base URL (the field is absent)
NoUrl == [host |-> 0, v1 |-> FALSE]

\* A base URL is kept as its host and whether it ends in "/v1".
\* row.baseUrl?.endsWith('/v1') ? row.baseUrl : `${row.baseUrl}/v1`
WithV1(u) == [u EXCEPT !.v1 = TRUE]

\* withReasoning(groqClient(..)) / withReasoning(xaiClient(..))
BaseBinding(id) ==
    [kind |-> "base", model |-> id, baseURL |-> NoUrl, apiKey |-> Undefined]

\* what languageModels[id] gives for a key that is not there
NoBinding ==
    [kind |-> Undefined, model |-> Undefined, baseURL |-> NoUrl,
     apiKey |-> Undefined]

\* withReasoning(createOpenAI({ apiKey, baseURL })(id))
LocalBinding(id, url, key) ==
    [kind |-> "local", model |-> id, baseURL |-> url, apiKey |-> key]

\* ---- a Record<string, T> with its insertion order: a sequence of entries
Keys(obj) == [k \in 1..Len(obj) |-> obj[k].id]

Has(obj, id) == \E k \in 1..Len(obj) : obj[k].id = id

Get(obj, id) ==
    IF Has(obj, id)
      THEN obj[CHOOSE k \in 1..Len(obj) : obj[k].id = id].v
      ELSE NoBinding

\* ---- a Record<string, T> whose key order the code never relies on
\* (modelDetails, modelEndpointMap): a function on its keys
EmptyMap == [id \in {} |-> Undefined]

MapHas(m, id) == id \in DOMAIN m

MapSet(m, id, v) == [x \in (DOMAIN m) \cup {id} |-> IF x = id THEN v ELSE m[x]]

\* obj[id] = v: an existing key keeps its place, a new key goes last
SetKey(obj, id, v) ==
    IF Has(obj, id)
      THEN [k \in 1..Len(obj) |-> IF obj[k].id = id THEN [id |-> id, v |-> v]
                                                    ELSE obj[k]]
      ELSE Append(obj, [id |-> id, v |-> v])

\* Object.assign(languageModels, baseLanguageModels)
RECURSIVE AssignBase(_, _)
AssignBase(obj, k) ==
    IF k > Len(BaseIds) THEN obj
    ELSE AssignBase(SetKey(obj, BaseIds[k], BaseBinding(BaseIds[k])), k + 1)

\* const baseModelDetails
BaseDetail(id) == [provider |-> IF id = "grok-3-mini" THEN "XAI" ELSE "Groq",
                   name |-> id]

RECURSIVE AssignBaseDetails(_, _)
AssignBaseDetails(obj, k) ==
    IF k > Len(BaseIds) THEN obj
    ELSE AssignBaseDetails(MapSet(obj, BaseIds[k], BaseDetail(BaseIds[k])),
                           k + 1)

\* The registry: the three module-level objects of ai/providers.ts
Registry(lm, md, em) ==
    [languageModels |-> lm, modelDetails |-> md, modelEndpointMap |-> em]

\* ---- getLanguageModel(id)
\* the first entry of obj, in key order, whose key satisfies Test
FirstWhere(obj, Test(_)) ==
    LET hits == {k \in 1..Len(obj) : Test(obj[k].id)}
    IN  IF hits = {} THEN 0
        ELSE CHOOSE k \in hits : \A j \in hits : k <= j

\* key.toLowerCase().includes('qwen')
IsQwenKey(key) == Includes(ToLowerCase(Chars(key)), Chars("qwen"))

\* !key.startsWith('qwen') && !key.startsWith('grok') && ... 'kimi', 'llama'
IsLocalKey(key) ==
    /\ ~StartsWith(Chars(key), Chars("qwen"))
    /\ ~StartsWith(Chars(key), Chars("grok"))
    /\ ~StartsWith(Chars(key), Chars("kimi"))
    /\ ~StartsWith(Chars(key), Chars("llama"))

FallbackModelNoDefault(lm, id) ==
    LET KeyHasId(key) == Includes(Chars(key), Chars(id))
        sim == FirstWhere(lm, KeyHasId)
    IN  IF sim # 0 THEN lm[sim].v ELSE NoBinding

\* The fallback chain after the exact match and the on-demand construction:
\* the Qwen special case, a key that contains the id, the first local model,
\* the default model.
FallbackModel(lm, id) ==
    LET qwen  == IF Includes(Chars(id), Chars("qwen"))
                   THEN FirstWhere(lm, IsQwenKey) ELSE 0
        KeyHasId(key) == Includes(Chars(key), Chars(id))
        sim   == FirstWhere(lm, KeyHasId)
        local == FirstWhere(lm, IsLocalKey)
    IN  IF qwen # 0 THEN lm[qwen].v
        ELSE IF sim # 0 THEN lm[sim].v
        ELSE IF local # 0 THEN lm[local].v
        ELSE Get(lm, defaultModel)

\* getLanguageModel returning the binding it constructed without keeping it
GetLanguageModelNoCache(r, id, throws) ==
    IF Has(r.languageModels, id) THEN [ret |-> Get(r.languageModels, id), reg |-> r]
    ELSE IF MapHas(r.modelEndpointMap, id) /\ ~throws
      THEN [ret |-> LocalBinding(id, r.modelEndpointMap[id].baseURL, Undefined),
            reg |-> r]
    ELSE [ret |-> FallbackModel(r.languageModels, id), reg |-> r]

\* getLanguageModel with the loop over the keys before the exact match
GetLanguageModelSubstringFirst(r, id, throws) ==
    [ret |-> FallbackModel(r.languageModels, id), reg |-> r]

\* getLanguageModel(id) on registry r; throws tells whether createOpenAI
\* throws in the on-demand branch.  Gives the returned binding and the
\* registry as the call leaves it.
GetLanguageModel(r, id, throws) ==
    LET lm == r.languageModels
        md == r.modelDetails
        em == r.modelEndpointMap
    IN  IF Has(lm, id) THEN [ret |-> Get(lm, id), reg |-> r]
        ELSE IF MapHas(em, id) /\ ~throws
          THEN LET model == LocalBinding(id, em[id].baseURL, Undefined)
               IN [ret |-> model,
                   reg |-> Registry(
                       SetKey(lm, id, model),
                       IF MapHas(md, id) THEN md
                       ELSE MapSet(md, id, [provider |-> "Local", name |-> id]),
                       em)]
        ELSE [ret |-> FallbackModel(lm, id), reg |-> r]

\* ---- the configuration store and what the two refreshes read from it
Endpoints == 1..MaxEndpoints
Tasks == 1..MaxTasks

\* Fixed columns of endpoint e: name, base_url, api_key
EndpointName(e) == "Ollama"
BaseUrlOf(e) == [host |-> e, v1 |-> (e % 2 = 0)]
ApiKeyOf(e) == IF e % 2 = 1 THEN "sk-local" ELSE Undefined

RowValues ==
    {r \in [present : BOOLEAN, isActive : BOOLEAN, availableModels : ModelLists] :
        ~r.present => (~r.isActive /\ r.availableModels = <<>>)}

\* The local_models table (ServerConfigStore) as a refresh may find it; it
\* is written by the external configuration API.
RowSets == [Endpoints -> RowValues]

ModelEntry(id, provider, url, key) ==
    [id |-> id, provider |-> provider, baseUrl |-> url, apiKey |-> key]

\* GET /api/models: baseModels, the four built-in records
BaseModelEntries ==
    [k \in 1..Len(BaseIds) |->
        ModelEntry(BaseIds[k], BaseDetail(BaseIds[k]).provider, NoUrl, Undefined)]

\* GET /api/models: localModelList, the models of the active endpoints that
\* list at least one model; the response carries no apiKey.
RECURSIVE LocalModelList(_, _)
LocalModelList(rs, e) ==
    IF e > MaxEndpoints THEN <<>>
    ELSE LET r == rs[e]
             mine == IF r.present /\ r.isActive /\ Len(r.availableModels) > 0
                       THEN [k \in 1..Len(r.availableModels) |->
                               ModelEntry(r.availableModels[k], EndpointName(e),
                                          BaseUrlOf(e), Undefined)]
                       ELSE <<>>
         IN  mine \o LocalModelList(rs, e + 1)

\* refreshModelsServerSide: the rows it selected, flattened to the models of
\* the rows the loop does not skip (if (!row.isActive) continue).
RECURSIVE ServerEntries(_, _)
ServerEntries(rs, e) ==
    IF e > MaxEndpoints THEN <<>>
    ELSE LET r == rs[e]
             mine == IF r.present /\ r.isActive
                       THEN [k \in 1..Len(r.availableModels) |->
                               ModelEntry(r.availableModels[k], EndpointName(e),
                                          BaseUrlOf(e), ApiKeyOf(e))]
                       ELSE <<>>
         IN  mine \o ServerEntries(rs, e + 1)

\* model.provider !== 'Groq' && model.provider !== 'XAI'
IsLocalEntry(m) == m.provider # "Groq" /\ m.provider # "XAI"

\* refreshModels, first pass: modelEndpointMap[model.id] = { baseURL, apiKey }
RECURSIVE RegisterEndpoints(_, _, _)
RegisterEndpoints(em, models, k) ==
    IF k > Len(models) THEN em
    ELSE LET m == models[k]
         IN  RegisterEndpoints(
               IF IsLocalEntry(m) /\ m.baseUrl # NoUrl
                 THEN MapSet(em, m.id, [baseURL |-> WithV1(m.baseUrl),
                                        apiKey |-> m.apiKey])
                 ELSE em,
               models, k + 1)

\* refreshModels, second pass: languageModels[model.id] and modelDetails of
\* every local model that has an endpoint; broken holds the ids for which
\* createOpenAI throws (caught per model).
RECURSIVE CreateModels(_, _, _, _)
CreateModels(r, models, broken, k) ==
    IF k > Len(models) THEN r
    ELSE LET m == models[k]
             em == r.modelEndpointMap
             made == IsLocalEntry(m) /\ MapHas(em, m.id) /\ m.id \notin broken
         IN  CreateModels(
               IF made
                 THEN Registry(
                        SetKey(r.languageModels, m.id,
                               LocalBinding(m.id, em[m.id].baseURL,
                                            Undefined)),
                        MapSet(r.modelDetails, m.id,
                               [provider |-> m.provider, name |-> m.id]),
                        em)
                 ELSE r,
               models, broken, k + 1)

\* refreshModelsServerSide, the loop over rows and their availableModels
RECURSIVE ServerRegister(_, _, _, _)
ServerRegister(r, entries, broken, k) ==
    IF k > Len(entries) THEN r
    ELSE LET m == entries[k]
             url == WithV1(m.baseUrl)
             em == MapSet(r.modelEndpointMap, m.id,
                          [baseURL |-> url, apiKey |-> m.apiKey])
         IN  ServerRegister(
               IF m.id \in broken
                 THEN Registry(r.languageModels, r.modelDetails, em)
                 ELSE Registry(
                        SetKey(r.languageModels, m.id,
                               LocalBinding(m.id, url, m.apiKey)),
                        MapSet(r.modelDetails, m.id,
                               [provider |-> m.provider, name |-> m.id]),
                        em),
               entries, broken, k + 1)

Reg == Registry(languageModels, modelDetails, modelEndpointMap)

SetReg(r) ==
    /\ languageModels' = r.languageModels
    /\ modelDetails' = r.modelDetails
    /\ modelEndpointMap' = r.modelEndpointMap

\* ---- JavaScript runs one callback at a time: a piece of code runs until it
\* reaches an await.  AwaitPoints are the positions at which a refresh is
\* suspended on an await (await getAllModels(); the awaited imports and db
\* select of refreshModelsServerSide); everywhere else between its first and
\* last statement it holds the thread.
AwaitPointsWithClear == {"fetch", "sfetch", "cleared"}
AwaitPoints == {"fetch", "sfetch"}

NotRunning(p) == p \in {"idle", "ready", "sready"} \cup AwaitPoints

Quiescent == \A t \in DOMAIN refreshPc : NotRunning(refreshPc[t])

\* the refreshes under way that were called before t
CalledBefore(t) ==
    {callOrder[k] : k \in {j \in 1..Len(callOrder) :
                              \E m \in (j + 1)..Len(callOrder) :
                                  callOrder[m] = t}}

\* refresh t is called
Called(t) ==
    /\ callOrder' = Append(callOrder, t)
    /\ UNCHANGED superseded

\* refresh t returns
Returned(t) ==
    /\ callOrder' = SelectSeq(callOrder, LAMBDA c : c # t)
    /\ superseded' = (superseded \cup CalledBefore(t)) \ {t}

\* The registry at module load, with the calls of set T still to be made
InitRegistryFor(T) ==
    /\ isBrowser \in BOOLEAN
    /\ languageModels = AssignBase(<<>>, 1)
    /\ modelDetails = AssignBaseDetails(EmptyMap, 1)
    /\ modelEndpointMap = EmptyMap
    /\ refreshPc = [t \in T |-> "idle"]
    /\ fetched = [t \in T |-> <<>>]
    /\ committed = Registry(AssignBase(<<>>, 1),
                            AssignBaseDetails(EmptyMap, 1), EmptyMap)
    /\ sawPartial = FALSE
    /\ gotUndefined = FALSE
    /\ callOrder = <<>>
    /\ superseded = {}

InitRegistry == InitRegistryFor(Tasks)

\* refreshModels() is called and suspends on await getAllModels()
RefreshModelsCall(t) ==
    /\ Quiescent
    /\ refreshPc[t] = "idle"
    /\ refreshPc' = [refreshPc EXCEPT ![t] = "fetch"]
    /\ Called(t)
    /\ UNCHANGED <<isBrowser, languageModels, modelDetails,
                   modelEndpointMap, fetched, committed,
                   sawPartial, gotUndefined>>
    /\ UNCHANGED <<connVars, uiVars, apiVars>>

\* getAllModels resolves: the response of /api/models for the rows rs the
\* table holds at that moment, or { models: [] } when the response is not ok
\* or the fetch throws.
GetAllModelsDone(t, ok, rs) ==
    /\ refreshPc[t] = "fetch"
    /\ fetched' = [fetched EXCEPT ![t] =
                     IF ok THEN BaseModelEntries \o LocalModelList(rs, 1)
                           ELSE <<>>]
    /\ refreshPc' = [refreshPc EXCEPT ![t] = "ready"]
    /\ UNCHANGED <<isBrowser, languageModels, modelDetails,
                   modelEndpointMap, committed,
                   sawPartial, gotUndefined,
                   callOrder, superseded>>
    /\ UNCHANGED <<connVars, uiVars, apiVars>>

\* Object.keys(..).forEach(key => delete ..[key]) on languageModels,
\* modelDetails and modelEndpointMap
ClearedKeepingEndpoints(r) == Registry(<<>>, EmptyMap, r.modelEndpointMap)
ClearedRegistry(r) == Registry(<<>>, EmptyMap, EmptyMap)

\* refreshModels resumes: the three objects are emptied key by key
ClearModels(t) ==
    /\ Quiescent
    /\ refreshPc[t] = "ready"
    /\ SetReg(ClearedRegistry(Reg))
    /\ refreshPc' = [refreshPc EXCEPT ![t] = "cleared"]
    /\ UNCHANGED <<isBrowser, fetched, committed,
                   sawPartial, gotUndefined,
                   callOrder, superseded>>
    /\ UNCHANGED <<connVars, uiVars, apiVars>>

\* Object.assign(languageModels, baseLanguageModels); same for modelDetails
AddBaseModels(t) ==
    /\ refreshPc[t] = "cleared"
    /\ languageModels' = AssignBase(languageModels, 1)
    /\ modelDetails' = AssignBaseDetails(modelDetails, 1)
    /\ refreshPc' = [refreshPc EXCEPT ![t] = "based"]
    /\ UNCHANGED <<isBrowser, modelEndpointMap, fetched, committed,
                   sawPartial, gotUndefined,
                   callOrder, superseded>>
    /\ UNCHANGED <<connVars, uiVars, apiVars>>

\* models.forEach(... modelEndpointMap[model.id] = ...)
RegisterEndpointsStep(t) ==
    /\ refreshPc[t] = "based"
    /\ modelEndpointMap' = RegisterEndpoints(modelEndpointMap, fetched[t], 1)
    /\ refreshPc' = [refreshPc EXCEPT ![t] = "endpoints"]
    /\ UNCHANGED <<isBrowser, languageModels, modelDetails, fetched,
                   committed,
                   sawPartial, gotUndefined,
                   callOrder, superseded>>
    /\ UNCHANGED <<connVars, uiVars, apiVars>>

\* models.forEach(... languageModels[model.id] = ...); refreshModels returns
CreateModelsStep(t, broken) ==
    /\ refreshPc[t] = "endpoints"
    /\ LET r == CreateModels(Reg, fetched[t], broken, 1)
       IN  /\ SetReg(r)
           /\ committed' = r
    /\ refreshPc' = [refreshPc EXCEPT ![t] = "idle"]
    /\ fetched' = [fetched EXCEPT ![t] = <<>>]
    /\ Returned(t)
    /\ UNCHANGED <<isBrowser, sawPartial, gotUndefined>>
    /\ UNCHANGED <<connVars, uiVars, apiVars>>

\* refreshModelsServerSide() is called on the server (in a browser it returns
\* at once) and suspends on its imports and the db select.
RefreshServerSideCall(t) ==
    /\ ~isBrowser
    /\ Quiescent
    /\ refreshPc[t] = "idle"
    /\ refreshPc' = [refreshPc EXCEPT ![t] = "sfetch"]
    /\ Called(t)
    /\ UNCHANGED <<isBrowser, languageModels, modelDetails,
                   modelEndpointMap, fetched, committed,
                   sawPartial, gotUndefined>>
    /\ UNCHANGED <<connVars, uiVars, apiVars>>

\* the select resolves with the user's rows rs; or it throws and the outer
\* catch logs, leaving the registry as it is.
SelectRowsDone(t, ok, rs) ==
    /\ refreshPc[t] = "sfetch"
    /\ fetched' = [fetched EXCEPT ![t] =
                     IF ok THEN ServerEntries(rs, 1) ELSE <<>>]
    /\ refreshPc' = [refreshPc EXCEPT ![t] = IF ok THEN "sready" ELSE "idle"]
    /\ UNCHANGED <<isBrowser, languageModels, modelDetails,
                   modelEndpointMap, committed,
                   sawPartial, gotUndefined>>
    /\ IF ok THEN UNCHANGED <<callOrder, superseded>> ELSE Returned(t)
    /\ UNCHANGED <<connVars, uiVars, apiVars>>

\* Object.keys(modelEndpointMap).forEach((key) => delete modelEndpointMap[key])
ClearEndpoints(t) ==
    /\ Quiescent
    /\ refreshPc[t] = "sready"
    /\ modelEndpointMap' = EmptyMap
    /\ refreshPc' = [refreshPc EXCEPT ![t] = "scleared"]
    /\ UNCHANGED <<isBrowser, languageModels, modelDetails, fetched,
                   committed,
                   sawPartial, gotUndefined,
                   callOrder, superseded>>
    /\ UNCHANGED <<connVars, uiVars, apiVars>>

\* for (const row of rows) ...; refreshModelsServerSide returns
RegisterRowsStep(t, broken) ==
    /\ refreshPc[t] = "scleared"
    /\ LET r == ServerRegister(Reg, fetched[t], broken, 1)
       IN  /\ SetReg(r)
           /\ committed' = r
    /\ refreshPc' = [refreshPc EXCEPT ![t] = "idle"]
    /\ fetched' = [fetched EXCEPT ![t] = <<>>]
    /\ Returned(t)
    /\ UNCHANGED <<isBrowser, sawPartial, gotUndefined>>
    /\ UNCHANGED <<connVars, uiVars, apiVars>>

\* model.languageModel(id): getLanguageModel(id), a synchronous call
Resolve(id, throws) ==
    /\ Quiescent
    /\ LET out == GetLanguageModel(Reg, id, throws)
       IN  /\ SetReg(out.reg)
           /\ committed' = out.reg
           /\ sawPartial' = (sawPartial \/ Reg # committed)
           /\ gotUndefined' = (gotUndefined \/ out.ret = NoBinding)
    /\ UNCHANGED <<isBrowser, refreshPc, fetched, callOrder, superseded>>
    /\ UNCHANGED <<connVars, uiVars, apiVars>>

\* debugCheckModel(id) on registry r: a model that has an endpoint and no
\* binding is constructed and stored in languageModels, and nothing is
\* written to modelDetails; throws tells whether createOpenAI throws.
DebugCheckModelOn(r, id, throws) ==
    IF ~Has(r.languageModels, id) /\ MapHas(r.modelEndpointMap, id) /\ ~throws
      THEN Registry(SetKey(r.languageModels, id,
                           LocalBinding(id, r.modelEndpointMap[id].baseURL,
                                        Undefined)),
                    r.modelDetails, r.modelEndpointMap)
      ELSE r

\* window.debugCheckModel(id), which exists in a browser only
DebugCheckModel(id, throws) ==
    /\ isBrowser
    /\ Quiescent
    /\ LET r == DebugCheckModelOn(Reg, id, throws)
       IN  /\ SetReg(r)
           /\ committed' = r
    /\ UNCHANGED <<isBrowser, refreshPc, fetched, sawPartial, gotUndefined,
                   callOrder, superseded>>
    /\ UNCHANGED <<connVars, uiVars, apiVars>>

EntryIds(models) == {models[k].id : k \in 1..Len(models)}

NextReg ==
    \/ \E t \in Tasks : RefreshModelsCall(t)
    \/ \E t \in Tasks, ok \in BOOLEAN, rs \in RowSets : GetAllModelsDone(t, ok, rs)
    \/ \E t \in Tasks : ClearModels(t)
    \/ \E t \in Tasks : AddBaseModels(t)
    \/ \E t \in Tasks : RegisterEndpointsStep(t)
    \/ \E t \in Tasks : \E broken \in SUBSET EntryIds(fetched[t]) :
          CreateModelsStep(t, broken)
    \/ \E t \in Tasks : RefreshServerSideCall(t)
    \/ \E t \in Tasks, ok \in BOOLEAN, rs \in RowSets : SelectRowsDone(t, ok, rs)
    \/ \E t \in Tasks : ClearEndpoints(t)
    \/ \E t \in Tasks : \E broken \in SUBSET EntryIds(fetched[t]) :
          RegisterRowsStep(t, broken)
    \/ \E id \in RequestIds, throws \in BOOLEAN : Resolve(id, throws)
    \/ \E id \in RequestIds, throws \in BOOLEAN : DebugCheckModel(id, throws)

\* ======================================================================
\* ServerStatusTracker as driven by MCPServerManager
\* ======================================================================
UiServers == 1..MaxUiServers

\* export type ServerStatus, and the absent status of a server just added
Statuses == {"undefined", "disconnected", "connecting", "connected", "error"}

\* The calls of startServer and stopServer the component makes, by call site:
\* toggleServer, toggleServerStatus, restartServer's delayed callback;
\* toggleServerStatus, restartServer.
StartCalls == {"start/toggleServer", "start/toggleServerStatus",
               "start/restartServer"}
StopCalls == {"stop/toggleServerStatus", "stop/restartServer"}
Calls == StartCalls \cup StopCalls

\* A Promise<boolean> settles with true, with false, or rejects.
Settlements == {"true", "false", "rejected"}

\* startServer(id), from its declaration and the tracker's transitions:
\* it resolves true when discovery succeeded (connected), resolves false when
\* the connection failed (error, with a message), or rejects without having
\* written a status.
StartServerEffect(st, how) ==
    CASE how = "true" -> "connected"
      [] how = "false" -> "error"
      [] OTHER -> st

\* stopServer(id): an explicit stop leaves the server disconnected; it may
\* resolve false or reject without having written a status.
StopServerEffect(st, how) ==
    CASE how = "true" -> "disconnected"
      [] OTHER -> st

\* !server.status || server.status === "disconnected" || ... === "error"
StartsWhenever(st) == TRUE
IsStartable(st) == st \in {"undefined", "disconnected", "error"}

\* server.status === "connected" || server.status === "connecting"
IsStoppable(st) == st \in {"connected", "connecting"}

InFlight(i) ==
    LET RECURSIVE Sum(_)
        Sum(S) == IF S = {} THEN 0
                  ELSE LET c == CHOOSE c \in S : TRUE
                       IN  pending[i][c] + Sum(S \ {c})
    IN  Sum(Calls) + timers[i]

Starts(i) == pending[i]["start/toggleServer"]
               + pending[i]["start/toggleServerStatus"]
               + pending[i]["start/restartServer"]

Stops(i) == pending[i]["stop/toggleServerStatus"]
              + pending[i]["stop/restartServer"]

\* calls and timers outstanding over all servers
Outstanding ==
    LET RECURSIVE Sum(_)
        Sum(n) == IF n = 0 THEN 0 ELSE InFlight(n) + Sum(n - 1)
    IN  Sum(MaxUiServers)

AddCall(i, c) == [pending EXCEPT ![i][c] = @ + 1]
DropCall(i, c) == [pending EXCEPT ![i][c] = @ - 1]

\* The record of an undisturbed restart grows with each status it shows.
Observe(obs, st) ==
    IF obs # <<>> /\ obs[Len(obs)] # st THEN Append(obs, st) ELSE obs

\* The manager with the first n servers configured and none selected
InitUIFor(n) ==
    /\ servers = 1..n
    /\ idsUsed = n
    /\ status = [i \in UiServers |-> "undefined"]
    /\ selectedServers = <<>>
    /\ pending = [i \in UiServers |-> [c \in Calls |-> 0]]
    /\ timers = [i \in UiServers |-> 0]
    /\ restartObs = [i \in UiServers |-> <<>>]

InitUI == InitUIFor(MaxUiServers)

\* selectedServers.filter((serverId) => serverId !== id)
Without(sel, i) == SelectSeq(sel, LAMBDA x : x # i)

\* updateServerStatus(id, st): the record of that id gets the status; an id
\* that is no longer configured has no record
WriteStatus(i, st) == IF i \in servers THEN [status EXCEPT ![i] = st] ELSE status

\* toggleServer(id): deselect, or select and auto-start a server that is not
\* running.
ToggleServer(i) ==
    /\ i \in servers
    /\ UNCHANGED <<connVars, regVars, apiVars>>
    /\ UNCHANGED <<servers, idsUsed>>
    /\ IF i \in Range(selectedServers)
      THEN /\ selectedServers' = Without(selectedServers, i)
           /\ UNCHANGED <<status, pending, timers, restartObs>>
      ELSE /\ selectedServers' = Append(selectedServers, i)
           /\ IF IsStartable(status[i])
                THEN /\ Outstanding < MaxInFlight
                     /\ status' = [status EXCEPT ![i] = "connecting"]
                     /\ pending' = AddCall(i, "start/toggleServer")
                     /\ restartObs' = [restartObs EXCEPT ![i] = <<>>]
                ELSE UNCHANGED <<status, pending, restartObs>>
           /\ UNCHANGED timers

\* toggleServerStatus(server): start a server that is not running, otherwise
\* stop it.
ToggleServerStatus(i) ==
    /\ i \in servers
    /\ Outstanding < MaxInFlight
    /\ IF IsStartable(status[i])
         THEN /\ status' = [status EXCEPT ![i] = "connecting"]
              /\ pending' = AddCall(i, "start/toggleServerStatus")
         ELSE /\ pending' = AddCall(i, "stop/toggleServerStatus")
              /\ UNCHANGED status
    /\ restartObs' = [restartObs EXCEPT ![i] = <<>>]
    /\ UNCHANGED <<servers, idsUsed, selectedServers, timers>>
    /\ UNCHANGED <<connVars, regVars, apiVars>>

\* restartServer(server): await stopServer when connected or connecting,
\* then setTimeout(..., 500); otherwise the timeout is set at once.
RestartServer(i) ==
    /\ i \in servers
    /\ Outstanding < MaxInFlight
    /\ IF IsStoppable(status[i])
         THEN /\ pending' = AddCall(i, "stop/restartServer")
              /\ UNCHANGED timers
         ELSE /\ timers' = [timers EXCEPT ![i] = @ + 1]
              /\ UNCHANGED pending
    /\ restartObs' = [restartObs EXCEPT ![i] =
                        IF status[i] = "connected" /\ InFlight(i) = 0
                          THEN <<"connected">> ELSE <<>>]
    /\ UNCHANGED <<status, servers, idsUsed, selectedServers>>
    /\ UNCHANGED <<connVars, regVars, apiVars>>

\* The status the delayed callback of restartServer writes before it calls
\* startServer: updateServerStatus(server.id, "connecting")
TimerStatusKept(st) == st
TimerStatus(st) == "connecting"

\* the 500 ms have passed: updateServerStatus(connecting), startServer
RestartTimerFires(i) ==
    /\ timers[i] > 0
    /\ timers' = [timers EXCEPT ![i] = @ - 1]
    /\ status' = WriteStatus(i, TimerStatus(status[i]))
    /\ pending' = AddCall(i, "start/restartServer")
    /\ restartObs' = [restartObs EXCEPT ![i] = Observe(@, status'[i])]
    /\ UNCHANGED <<servers, idsUsed, selectedServers>>
    /\ UNCHANGED <<connVars, regVars, apiVars>>

\* Whether the call site handles a rejection by
\* updateServerStatus(server.id, "error", message): the .catch of
\* toggleServer, the catch of toggleServerStatus around startServer and the
\* catch of restartServer around stopServer do; the catch of
\* toggleServerStatus around stopServer only shows a toast, and the delayed
\* callback of restartServer has no handler.
CatchSetsError(c) ==
    c \in {"start/toggleServer", "start/toggleServerStatus",
           "stop/restartServer"}

AfterSettle(c, st, how) ==
    IF how = "rejected" /\ CatchSetsError(c) THEN "error" ELSE st

\* a startServer call settles and its caller continues
StartServerSettles(i, c, how) ==
    /\ c \in StartCalls
    /\ pending[i][c] > 0
    /\ pending' = DropCall(i, c)
    /\ status' = WriteStatus(i, AfterSettle(c, StartServerEffect(status[i], how),
                                         how))
    /\ restartObs' = [restartObs EXCEPT ![i] = Observe(@, status'[i])]
    /\ UNCHANGED <<servers, idsUsed, selectedServers, timers>>
    /\ UNCHANGED <<connVars, regVars, apiVars>>

\* a stopServer call settles and its caller continues; restartServer then
\* sets its timeout unless the call rejected
StopServerSettles(i, c, how) ==
    /\ c \in StopCalls
    /\ pending[i][c] > 0
    /\ pending' = DropCall(i, c)
    /\ status' = WriteStatus(i, AfterSettle(c, StopServerEffect(status[i], how),
                                         how))
    /\ timers' = [timers EXCEPT ![i] =
                    IF c = "stop/restartServer" /\ how # "rejected"
                      THEN @ + 1 ELSE @]
    /\ restartObs' = [restartObs EXCEPT ![i] = Observe(@, status'[i])]
    /\ UNCHANGED <<servers, idsUsed, selectedServers>>
    /\ UNCHANGED <<connVars, regVars, apiVars>>

\* updateServer() of the manager, with a name and a URL in the form: the
\* edited record becomes { ...newServer, id }, and newServer holds the
\* configuration fields only (startEditing), so the record's status,
\* errorMessage and tools are absent afterwards.
UpdateServer(i) ==
    /\ i \in servers
    /\ status' = [status EXCEPT ![i] = "undefined"]
    /\ restartObs' = [restartObs EXCEPT ![i] = <<>>]
    /\ UNCHANGED <<servers, idsUsed, selectedServers, pending, timers>>
    /\ UNCHANGED <<connVars, regVars, apiVars>>

\* addServer() with a name and a URL in the form: a record with a fresh id
\* and no status is appended
AddServer ==
    /\ idsUsed < MaxUiServers
    /\ idsUsed' = idsUsed + 1
    /\ servers' = servers \cup {idsUsed + 1}
    /\ UNCHANGED <<status, selectedServers, pending, timers, restartObs>>
    /\ UNCHANGED <<connVars, regVars, apiVars>>

\* what removeServer leaves of the selection
SelectionKept(sel, i) == sel
SelectionAfterRemove(sel, i) == IF i \in Range(sel) THEN Without(sel, i) ELSE sel

\* removeServer(id): the record goes, and the id leaves the selection; calls
\* in flight for it are not touched
RemoveServer(i) ==
    /\ i \in servers
    /\ servers' = servers \ {i}
    /\ selectedServers' = SelectionAfterRemove(selectedServers, i)
    /\ status' = [status EXCEPT ![i] = "undefined"]
    /\ restartObs' = [restartObs EXCEPT ![i] = <<>>]
    /\ UNCHANGED <<idsUsed, pending, timers>>
    /\ UNCHANGED <<connVars, regVars, apiVars>>

\* clearAllServers(): with a selection, deselect everything; nothing is
\* stopped
ClearAllServers ==
    /\ Len(selectedServers) > 0
    /\ selectedServers' = <<>>
    /\ UNCHANGED <<status, servers, idsUsed, pending, timers, restartObs>>
    /\ UNCHANGED <<connVars, regVars, apiVars>>

\* the actions that configure and select servers, next to the status
\* button and the calls these actions start
NextSelect ==
    \/ AddServer
    \/ \E i \in UiServers : RemoveServer(i)
    \/ \E i \in UiServers : ToggleServer(i)
    \/ ClearAllServers
    \/ \E i \in UiServers : ToggleServerStatus(i)
    \/ \E i \in UiServers, how \in Settlements :
          \/ StartServerSettles(i, "start/toggleServer", how)
          \/ StartServerSettles(i, "start/toggleServerStatus", how)
    \/ \E i \in UiServers, how \in Settlements :
          StopServerSettles(i, "stop/toggleServerStatus", how)

NextUI ==
    \/ \E i \in UiServers : ToggleServer(i)
    \/ \E i \in UiServers : UpdateServer(i)
    \/ \E i \in UiServers : ToggleServerStatus(i)
    \/ \E i \in UiServers : RestartServer(i)
    \/ \E i \in UiServers : RestartTimerFires(i)
    \/ \E i \in UiServers, c \in StartCalls, how \in Settlements :
          StartServerSettles(i, c, how)
    \/ \E i \in UiServers, c \in StopCalls, how \in Settlements :
          StopServerSettles(i, c, how)

\* ======================================================================
\* Model discovery of the local-models API: discoverModels
\* ======================================================================
\* model names an endpoint may list; a field may be missing (undefined)
ModelNames == {"m1", "m2"}
FieldValues == ModelNames \cup {Undefined}

\* What a probe got: fetch rejected, fetch never settled, a response that
\* is not ok, an ok response whose body is not JSON, or an ok response with
\* a JSON body: the list field missing, not an array, an array with a null
\* element, or an array of records.
ProbeKinds == {"networkError", "noResponse", "notOk", "notJson", "noList",
               "notArray", "nullElement", "list"}

ProbeOutcomes ==
    {o \in [kind : ProbeKinds,
            records : SeqsUpTo([id : FieldValues, name : FieldValues],
                               MaxModels)] :
        o.kind # "list" => o.records = <<>>}

\* /api/tags lists records with a name; their id plays no part
PrimaryOutcomes == {o \in ProbeOutcomes :
                       \A k \in 1..Len(o.records) : o.records[k].id = Undefined}

Return(list) == [kind |-> "return", list |-> list]
Throw == [kind |-> "throw", list |-> <<>>]
FallThrough == [kind |-> "next", list |-> <<>>]

\* a || b on strings that are not empty
OrElse(a, b) == IF a # Undefined THEN a ELSE b

\* the body of the first inner try: fetch(`${baseApiUrl}/api/tags`),
\* response.json(), data.models?.map((model) => model.name) || []
OllamaProbe(o) ==
    CASE o.kind \in {"networkError", "notJson"} -> Throw
      [] o.kind = "notOk" -> FallThrough
      [] o.kind = "noList" -> Return(<<>>)
      [] o.kind \in {"notArray", "nullElement"} -> Throw
      [] o.kind = "list" ->
            Return([k \in 1..Len(o.records) |-> o.records[k].name])

\* (model) => model.id || model.name
ModelNameOnly(r) == r.name
ModelIdOrName(r) == OrElse(r.id, r.name)

\* the body of the second inner try: fetch(`${baseApiUrl}/models`),
\* response.json(), if (data.data && Array.isArray(data.data)) ...
OpenAIProbe(o) ==
    CASE o.kind \in {"networkError", "notJson"} -> Throw
      [] o.kind \in {"notOk", "noList", "notArray"} -> FallThrough
      [] o.kind = "nullElement" -> Throw
      [] o.kind = "list" ->
            Return([k \in 1..Len(o.records) |-> ModelIdOrName(o.records[k])])

\* catch (ollamaError) / catch (openaiError): log and go on
InnerCatch(r) == IF r.kind = "throw" THEN FallThrough ELSE r

\* catch (error) { console.error(...); return []; }
OuterCatchRethrows(r) == r
OuterCatch(r) == IF r.kind = "throw" THEN Return(<<>>) ELSE r

NoResult == [raised |-> FALSE, list |-> <<>>]

\* what the caller of discoverModels gets from a completed body
Settle(r) == [raised |-> r.kind = "throw", list |-> r.list]

\* an endpoint that answers no probe with a success
QuietProbe ==
    [baseUrlIsString |-> TRUE,
     primary |-> [kind |-> "notOk", records |-> <<>>],
     fallback |-> [kind |-> "notOk", records |-> <<>>]]

\* The endpoint a call will meet, and no call made yet
InitDiscovery ==
    /\ probe \in [baseUrlIsString : BOOLEAN, primary : PrimaryOutcomes,
                  fallback : ProbeOutcomes]
    /\ discPc = "idle"
    /\ discResult = NoResult

\* discoverModels(baseUrl, apiKey) is called: baseUrl.replace(/\/v1\/?$/, '')
\* throws when baseUrl is not a string; then the first fetch is awaited.
DiscoverModelsBegin ==
    /\ discPc = "idle"
    /\ UNCHANGED probe
    /\ LET r == OuterCatch(IF probe.baseUrlIsString THEN FallThrough
                                                    ELSE Throw)
       IN  IF r.kind = "next"
             THEN /\ discPc' = "primary"
                  /\ discResult' = NoResult
             ELSE /\ discPc' = "done"
                  /\ discResult' = Settle(r)

\* a call of discoverModels from the route that creates an endpoint
DiscoverModelsCall ==
    /\ DiscoverModelsBegin
    /\ UNCHANGED routeVars
    /\ UNCHANGED <<connVars, regVars, uiVars, pageVars>>

\* the /api/tags probe settles; the fetch carries no signal and no timeout,
\* so an endpoint that never responds leaves the await pending
PrimarySettles ==
    /\ discPc = "primary"
    /\ probe.primary.kind # "noResponse"
    /\ LET r == OuterCatch(InnerCatch(OllamaProbe(probe.primary)))
       IN  IF r.kind = "next"
             THEN /\ discPc' = "fallback"
                  /\ UNCHANGED discResult
             ELSE /\ discPc' = "done"
                  /\ discResult' = Settle(r)
    /\ UNCHANGED <<probe, routeVars, connVars, regVars, uiVars, pageVars>>

\* the /models probe settles; without a list the function returns []
FallbackSettles ==
    /\ discPc = "fallback"
    /\ probe.fallback.kind # "noResponse"
    /\ LET r == OuterCatch(InnerCatch(OpenAIProbe(probe.fallback)))
       IN  discResult' = Settle(IF r.kind = "next"
                                  THEN OuterCatch(Return(<<>>)) ELSE r)
    /\ discPc' = "done"
    /\ UNCHANGED <<probe, routeVars, connVars, regVars, uiVars, pageVars>>

NextApi ==
    \/ DiscoverModelsCall
    \/ PrimarySettles
    \/ FallbackSettles

\* ======================================================================
\* POST /api/local-models/[id]/models and the page that calls it
\* ======================================================================
\* A request carries a userId in its query string, in its JSON body, in both
\* or in neither.
UserIds == {"default-user"}
Requests == [query : UserIds \cup {Undefined}, body : UserIds \cup {Undefined}]

\* refreshAvailableModels: fetch(`/api/local-models/${modelId}/models`,
\* { method: 'POST', body: JSON.stringify({ userId }) })
PageRequest == [query |-> Undefined, body |-> "default-user"]

\* new URL(request.url).searchParams.get('userId')
UserIdOf(req) == req.query

InitRoute ==
    /\ routePc = "idle"
    /\ routeCaller = "none"
    /\ routeStatus = 0
    /\ storedModels = <<>>

\* The handler up to its first await on discoverModels: 400 without a
\* userId, 404 when the select finds no row of that user, otherwise
\* discoverModels(endpoint.baseUrl, endpoint.apiKey) is called.
PostModels(req, caller, found) ==
    /\ routePc = "idle"
    /\ routeCaller' = caller
    /\ UNCHANGED storedModels
    /\ IF UserIdOf(req) = Undefined
         THEN /\ routeStatus' = 400
              /\ routePc' = "done"
              /\ UNCHANGED <<probe, discPc, discResult>>
         ELSE IF ~found
           THEN /\ routeStatus' = 404
                /\ routePc' = "done"
                /\ UNCHANGED <<probe, discPc, discResult>>
           ELSE /\ DiscoverModelsBegin
                /\ routePc' = "discovering"
                /\ UNCHANGED routeStatus
    /\ UNCHANGED <<connVars, regVars, uiVars, pageVars>>

\* the page's button: refreshAvailableModels(modelId)
RefreshAvailableModels(found) == PostModels(PageRequest, "page", found)

\* any other client of the route
ClientPostsModels(req, found) == PostModels(req, "client", found)

\* discoverModels has returned: the row is updated and the response sent; a
\* throw is answered with 500 by the handler's catch
PostModelsStore ==
    /\ routePc = "discovering"
    /\ discPc = "done"
    /\ IF discResult.raised
         THEN /\ routeStatus' = 500
              /\ UNCHANGED storedModels
         ELSE /\ routeStatus' = 200
              /\ storedModels' = discResult.list
    /\ routePc' = "done"
    /\ UNCHANGED <<routeCaller, probe, discPc, discResult>>
    /\ UNCHANGED <<connVars, regVars, uiVars, pageVars>>

NextRoute ==
    \/ \E found \in BOOLEAN : RefreshAvailableModels(found)
    \/ \E req \in Requests, found \in BOOLEAN : ClientPostsModels(req, found)
    \/ PrimarySettles
    \/ FallbackSettles
    \/ PostModelsStore

\* ======================================================================
\* Toggling an endpoint: toggleLocalModelActive and the page's
\* toggleModelActive
\* ======================================================================
Togglers == 1..MaxTogglers

InitToggle ==
    /\ rowIsActive \in BOOLEAN
    /\ originalActive = rowIsActive
    /\ pageIsActive = rowIsActive
    /\ togglePc = [t \in Togglers |-> "idle"]
    /\ toggleSaw = [t \in Togglers |-> FALSE]
    /\ applied = 0

ToggleFrame == UNCHANGED <<probe, discPc, discResult, routeVars,
                           connVars, regVars, uiVars, fetchVars,
                           createVars, pickerVars>>

\* toggleLocalModelActive, up to its update: getLocalModelById gives the row,
\* or null when the select throws or finds nothing (return false)
GetLocalModelById(t, found) ==
    /\ togglePc[t] = "idle"
    /\ togglePc' = [togglePc EXCEPT ![t] = IF found THEN "read" ELSE "done"]
    /\ toggleSaw' = [toggleSaw EXCEPT ![t] = rowIsActive]
    /\ UNCHANGED <<rowIsActive, originalActive, pageIsActive, applied>>
    /\ ToggleFrame

\* what a toggle writes: set({ isActive: !currentModel.isActive })
ToggledValue(seen) == ~seen

\* toggleLocalModelActive, its update: the row gets the negation of what was
\* read; an update that throws is caught (return false)
ToggleLocalModelActiveWrite(t, ok) ==
    /\ togglePc[t] = "read"
    /\ togglePc' = [togglePc EXCEPT ![t] = "done"]
    /\ IF ok THEN /\ rowIsActive' = ToggledValue(toggleSaw[t])
                  /\ applied' = applied + 1
             ELSE UNCHANGED <<rowIsActive, applied>>
    /\ UNCHANGED <<originalActive, pageIsActive, toggleSaw>>
    /\ ToggleFrame

\* toggleModelActive(id) of the page: the PUT carries the negation of the
\* isActive the page holds
ToggleModelActive(t) ==
    /\ togglePc[t] = "idle"
    /\ togglePc' = [togglePc EXCEPT ![t] = "put"]
    /\ toggleSaw' = [toggleSaw EXCEPT ![t] = pageIsActive]
    /\ UNCHANGED <<rowIsActive, originalActive, pageIsActive, applied>>
    /\ ToggleFrame

\* PUT /api/local-models/[id] applies the body's isActive; when the response
\* is ok the page goes on to loadLocalModels, otherwise it shows a toast
PutSettles(t, ok) ==
    /\ togglePc[t] = "put"
    /\ togglePc' = [togglePc EXCEPT ![t] = IF ok THEN "reload" ELSE "done"]
    /\ IF ok THEN /\ rowIsActive' = ToggledValue(toggleSaw[t])
                  /\ applied' = applied + 1
             ELSE UNCHANGED <<rowIsActive, applied>>
    /\ UNCHANGED <<originalActive, pageIsActive, toggleSaw>>
    /\ ToggleFrame

\* loadLocalModels(): the page takes the rows as they are now
LoadLocalModels(t) ==
    /\ togglePc[t] = "reload"
    /\ togglePc' = [togglePc EXCEPT ![t] = "done"]
    /\ pageIsActive' = rowIsActive
    /\ UNCHANGED <<rowIsActive, originalActive, toggleSaw, applied>>
    /\ ToggleFrame

NextToggle ==
    \/ \E t \in Togglers, found \in BOOLEAN : GetLocalModelById(t, found)
    \/ \E t \in Togglers, ok \in BOOLEAN : ToggleLocalModelActiveWrite(t, ok)
    \/ \E t \in Togglers : ToggleModelActive(t)
    \/ \E t \in Togglers, ok \in BOOLEAN : PutSettles(t, ok)
    \/ \E t \in Togglers : LoadLocalModels(t)

\* ======================================================================
\* The page's own discovery: fetchOllamaModels
\* ======================================================================
\* the body of its first inner try: data.models.map(model => model.name),
\* with no guard on data.models
ClientOllamaProbe(o) ==
    CASE o.kind \in {"networkError", "notJson"} -> Throw
      [] o.kind = "notOk" -> FallThrough
      [] o.kind \in {"noList", "notArray", "nullElement"} -> Throw
      [] o.kind = "list" ->
            Return([k \in 1..Len(o.records) |-> o.records[k].name])

\* the body of its second inner try, the same statements as the server's
ClientOpenAIProbe(o) == OpenAIProbe(o)

\* return ['default'], after the probes and in the outer catch
DefaultList == Return(<<"default">>)

ClientOuterCatch(r) == IF r.kind = "throw" THEN DefaultList ELSE r

\* fetchOllamaModels(baseUrl, apiKey) against the endpoint p
FetchOllamaModelsOn(p) ==
    LET entry == ClientOuterCatch(IF p.baseUrlIsString THEN FallThrough
                                                       ELSE Throw)
        first == ClientOuterCatch(InnerCatch(ClientOllamaProbe(p.primary)))
        second == ClientOuterCatch(InnerCatch(ClientOpenAIProbe(p.fallback)))
    IN  IF entry.kind # "next" THEN entry
        ELSE IF first.kind # "next" THEN first
        ELSE IF second.kind # "next" THEN second
        ELSE DefaultList

\* the fetches the call awaits all settle
ClientFetchesSettle(p) ==
    \/ ~p.baseUrlIsString
    \/ /\ p.primary.kind # "noResponse"
       /\ \/ InnerCatch(ClientOllamaProbe(p.primary)).kind # "next"
          \/ p.fallback.kind # "noResponse"

InitFetch ==
    /\ fetchPc = "idle"
    /\ fetchResult = <<>>

\* the page calls fetchOllamaModels and the call returns
FetchOllamaModels ==
    /\ fetchPc = "idle"
    /\ ClientFetchesSettle(probe)
    /\ fetchPc' = "done"
    /\ fetchResult' = FetchOllamaModelsOn(probe).list
    /\ UNCHANGED <<probe, discPc, discResult, routeVars, toggleVars,
                   createVars, pickerVars>>
    /\ UNCHANGED <<connVars, regVars, uiVars>>

\* the page and the server discover the models of the same endpoint
NextCompare ==
    \/ FetchOllamaModels
    \/ DiscoverModelsCall
    \/ PrimarySettles
    \/ FallbackSettles

\* ======================================================================
\* POST /api/local-models: creating an endpoint
\* ======================================================================
\* which of name, baseUrl and userId the body carries
CreateRequests == [name : BOOLEAN, baseUrl : BOOLEAN, userId : BOOLEAN]

NoRow == [present |-> FALSE, isActive |-> FALSE, availableModels |-> <<>>]

\* const newModel = { ..., isActive: false, availableModels, ... }
NewModelWithDefault(list) ==
    [present |-> TRUE, isActive |-> FALSE,
     availableModels |-> IF list = <<>> THEN <<"default">> ELSE list]
NewModel(list) ==
    [present |-> TRUE, isActive |-> FALSE, availableModels |-> list]

InitCreate ==
    /\ createPc = "idle"
    /\ createStatus = 0
    /\ createdRow = NoRow
    /\ insertFailed = FALSE

CreateFrame == UNCHANGED <<routeVars, toggleVars, fetchVars, pickerVars,
                           connVars, regVars, uiVars>>

\* The handler up to its await on discoverModels: 400 unless name, baseUrl
\* and userId are all there
PostLocalModels(req) ==
    /\ createPc = "idle"
    /\ IF ~(req.name /\ req.baseUrl /\ req.userId)
         THEN /\ createStatus' = 400
              /\ createPc' = "done"
              /\ UNCHANGED <<probe, discPc, discResult>>
         ELSE /\ DiscoverModelsBegin
              /\ createPc' = "discovering"
              /\ UNCHANGED createStatus
    /\ UNCHANGED <<createdRow, insertFailed>>
    /\ CreateFrame

\* discoverModels has returned: the row is inserted with what it gave and
\* answered with 201; a throw of discoverModels or of the insert is answered
\* with 500 by the handler's catch
PostLocalModelsInsert(ok) ==
    /\ createPc = "discovering"
    /\ discPc = "done"
    /\ createPc' = "done"
    /\ IF discResult.raised
         THEN /\ createStatus' = 500
              /\ UNCHANGED <<createdRow, insertFailed>>
         ELSE IF ok
           THEN /\ createStatus' = 201
                /\ createdRow' = NewModel(discResult.list)
                /\ UNCHANGED insertFailed
           ELSE /\ createStatus' = 500
                /\ insertFailed' = TRUE
                /\ UNCHANGED createdRow
    /\ UNCHANGED <<probe, discPc, discResult>>
    /\ CreateFrame

NextCreate ==
    \/ \E req \in CreateRequests : PostLocalModels(req)
    \/ PrimarySettles
    \/ FallbackSettles
    \/ \E ok \in BOOLEAN : PostLocalModelsInsert(ok)

\* the model picker before it is mounted
InitPicker ==
    /\ selectedModel = defaultModel
    /\ modelIds = <<>>
    /\ pickerPc = "unmounted"
    /\ pickerDid = "nothing"

InitPage == InitToggle /\ InitFetch /\ InitCreate /\ InitPicker

\* the pages at rest, for the specifications that do not use them
QuietPage == rowIsActive = FALSE

\* ======================================================================
\* Specifications
\* ======================================================================
InitAll ==
    InitConn /\ InitRegistry /\ InitUI /\ InitDiscovery /\ InitRoute /\ InitPage

\* one conversational turn, on the server
InitTurn == QuietPage /\ probe = QuietProbe /\ isBrowser = FALSE /\ InitAll
SpecConn == InitTurn /\ [][NextConn]_vars

\* The same turn with the progress the runtime gives: every pending connect,
\* catalog request and save settles, and the model's response finishes as
\* long as the request is alive.  Once the request is aborted nothing makes
\* onFinish run (the route registers its abort listener to "ensure cleanup
\* happens if the request is terminated early").
StreamFinishes == FinishBegin /\ ~aborted
SpecConnLive ==
    /\ SpecConn
    /\ WF_vars(CreateClient) /\ WF_vars(FetchTools) /\ WF_vars(InitReturn)
    /\ WF_vars(StreamFinishes) /\ WF_vars(FinishCleanup)

\* the registry, in a browser or on the server; no turn is running
InitReg == QuietPage /\ probe = QuietProbe /\ mcpServers = <<>> /\ InitAll
SpecReg == InitReg /\ [][NextReg]_vars

\* Two calls of refreshModels in one browser tab, such as the model picker's
\* refresh on mount and its backup refresh, or a refresh from the
\* local-models page; nothing resolves a model meanwhile.
PickerCalls == {1, 2}

InitOverlap ==
    /\ QuietPage
    /\ probe = QuietProbe
    /\ mcpServers = <<>>
    /\ isBrowser = TRUE
    /\ InitConn
    /\ InitRegistryFor(PickerCalls)
    /\ InitUI
    /\ InitDiscovery
    /\ InitRoute
    /\ InitPage

NextOverlap ==
    \/ \E t \in PickerCalls : RefreshModelsCall(t)
    \/ \E t \in PickerCalls, ok \in BOOLEAN, rs \in RowSets :
          GetAllModelsDone(t, ok, rs)
    \/ \E t \in PickerCalls : ClearModels(t)
    \/ \E t \in PickerCalls : AddBaseModels(t)
    \/ \E t \in PickerCalls : RegisterEndpointsStep(t)
    \/ \E t \in PickerCalls : \E broken \in SUBSET EntryIds(fetched[t]) :
          CreateModelsStep(t, broken)

SpecOverlap == InitOverlap /\ [][NextOverlap]_vars

\* the server manager, in a browser; no turn is running
InitManager ==
    /\ QuietPage
    /\ probe = QuietProbe
    /\ mcpServers = <<>>
    /\ isBrowser = TRUE
    /\ InitAll
SpecUI == InitManager /\ [][NextUI]_vars

\* the local-models API on the server; no turn is running
InitApi == QuietPage /\ mcpServers = <<>> /\ isBrowser = FALSE /\ InitAll
SpecApi == InitApi /\ [][NextApi]_vars

\* the refresh route of the local-models API and its callers
SpecRoute == InitApi /\ [][NextRoute]_vars

\* the local-models page and the store function toggling one endpoint
InitToggling ==
    probe = QuietProbe /\ mcpServers = <<>> /\ isBrowser = TRUE /\ InitAll
SpecToggle == InitToggling /\ [][NextToggle]_vars

\* client-side and server-side discovery of one endpoint
SpecCompare == InitApi /\ [][NextCompare]_vars

\* the route that creates an endpoint
SpecCreate == InitApi /\ [][NextCreate]_vars

\* the manager opened on an empty server list
InitSelect ==
    /\ QuietPage
    /\ probe = QuietProbe
    /\ mcpServers = <<>>
    /\ isBrowser = TRUE
    /\ InitConn
    /\ InitRegistry
    /\ InitUIFor(0)
    /\ InitDiscovery
    /\ InitRoute
    /\ InitPage

SpecSelect == InitSelect /\ [][NextSelect]_vars

\* discoverModels with progress: the call is made and every fetch that
\* settles lets the function go on
SpecApiLive ==
    /\ SpecApi
    /\ WF_vars(DiscoverModelsCall)
    /\ WF_vars(PrimarySettles)
    /\ WF_vars(FallbackSettles)

\* ======================================================================
\* Properties of the ConnectionManager
\* ======================================================================
Succeeded == {i \in 1..Len(mcpServers) : mcpServers[i].outcome = "ok"}

\* C1: for every config list and every subset of failing servers,
\* initializeMCPClients never raises, and once it has returned the tool map
\* holds exactly the names of the catalogs of the servers that succeeded
\* (hence it is empty when every server failed).
C1_InitReturnsUnion ==
    /\ ~initRaised
    /\ initPc # "raised"
    /\ initPc = "returned" =>
          DOMAIN tools = UNION {mcpServers[i].catalog : i \in Succeeded}

C1_Witness ==
    /\ initPc = "returned"
    /\ \E i \in Succeeded : mcpServers[i].catalog # {}
    /\ \E i \in 1..Len(mcpServers) : mcpServers[i].outcome = "connectFail"
    /\ DOMAIN tools # {}

\* The turn is over: onFinish has run to its end, or the request was
\* cancelled while the response was still streaming.
TurnEnded == turnPc = "done" \/ (aborted /\ turnPc = "stream")

\* C2: under every ordering of completion and cancellation, each client
\* opened by initialize has had disconnect invoked exactly once when the turn
\* is over.
C2_DisconnectExactlyOnce ==
    TurnEnded => \A c \in DOMAIN disconnects : disconnects[c] = 1

\* C3: a second call of the cleanup closure returned by initialize performs
\* no disconnect work.
C3_SecondCleanupIsNoop ==
    [][(cleanupCalls >= 1 /\ cleanupCalls' = cleanupCalls + 1)
         => disconnects' = disconnects]_vars

\* the servers that succeeded and expose tool n
Exposing(n) == {i \in Succeeded : n \in mcpServers[i].catalog}

\* C14: in the tool map initialize returns, a name exposed by several
\* succeeding servers holds the descriptor of the one that is latest in the
\* config list, and every name of every succeeding server is present.
C14_LaterServerWins ==
    initPc = "returned" =>
        /\ \A i \in Succeeded : mcpServers[i].catalog \subseteq DOMAIN tools
        /\ \A n \in DOMAIN tools :
              /\ tools[n] \in Exposing(n)
              /\ \A i \in Exposing(n) : i <= tools[n]

\* two succeeding servers share a name and each has one of its own
C14_Witness ==
    /\ initPc = "returned"
    /\ Len(mcpServers) = 2
    /\ Succeeded = {1, 2}
    /\ mcpServers[1].catalog = ToolNames
    /\ mcpServers[2].catalog = {1}
    /\ tools[1] = 2
    /\ tools[2] = 1

\* a step in which cleanupMCPClients ran
ReleaseRuns == mcpClients' = mcpClients /\ disconnects' # disconnects

\* C21: each release invokes disconnect on every opened client, whichever
\* disconnects fail, and no release raises.
C21_ReleaseSwallowsDisconnectErrors ==
    /\ [](~cleanupRaised)
    /\ [][ReleaseRuns =>
            \A k \in 1..Len(mcpClients) :
                disconnects'[mcpClients[k]] > disconnects[mcpClients[k]]]_vars

\* a release has run over a client whose disconnect fails and one whose
\* disconnect succeeds
C21_Witness ==
    /\ turnPc = "done"
    /\ Len(mcpClients) = 2
    /\ mcpServers[mcpClients[1]].disconnectFails
    /\ ~mcpServers[mcpClients[2]].disconnectFails
    /\ \A k \in 1..2 : disconnects[mcpClients[k]] >= 1

\* C22 as stated: once initialize has returned it has registered exactly one
\* abort listener, also when no server connected.
C22_ExactlyOneListener ==
    initPc = "returned" => initListeners = 1

\* C22 as the code has it: initialize registers exactly one abort listener
\* when it opened at least one client, and none when no server connected; it
\* registers none before it has left the loop.
C22_OneListenerIfClients ==
    /\ initPc = "returned" =>
          initListeners = IF Len(mcpClients) > 0 THEN 1 ELSE 0
    /\ initPc # "returned" => initListeners = 0

\* initialize returned with one server connected and one refused
C22_Witness ==
    /\ initPc = "returned"
    /\ Len(mcpServers) = 2
    /\ Len(mcpClients) = 1
    /\ mcpServers[1].outcome = "connectFail"
    /\ initListeners = 1

\* the cancel signal has fired and initialize has not returned yet
CancelledDuringConnect == aborted /\ initPc # "returned"

\* initialize has returned and every client it opened was disconnected
AllReleased ==
    /\ initPc = "returned"
    /\ \A k \in 1..Len(mcpClients) : disconnects[mcpClients[k]] >= 1

\* C11: if the cancel signal fires while initialize is still connecting,
\* initialize raises nothing and every client it opened is eventually
\* disconnected.
C11_CancelDuringConnectReleases ==
    /\ [](~initRaised)
    /\ (CancelledDuringConnect ~> AllReleased)

\* C23: initialize eventually returns, also when a server never completes
\* connecting or never answers the tools request.
C23_InitEventuallyReturns == <>(initPc = "returned")

\* the servers whose connection was opened and whose tools request failed
ToolsFailed ==
    {i \in 1..Len(mcpServers) : mcpServers[i].outcome = "toolsFail"}

\* the servers whose connection could not be opened
ConnectFailed ==
    {i \in 1..Len(mcpServers) : mcpServers[i].outcome = "connectFail"}

\* C28: a client whose tools request failed adds nothing to the tool map but
\* is in the list of opened clients, and every release that runs, on
\* completion or on cancellation, disconnects it with the others; a server
\* whose connection could not be opened is never in that list.
C28_FailedToolsClientIsReleased ==
    /\ [](initPc = "returned" =>
            /\ DOMAIN tools = UNION {mcpServers[i].catalog : i \in Succeeded}
            /\ ToolsFailed \subseteq Range(mcpClients))
    /\ [](Range(mcpClients) \cap ConnectFailed = {})
    /\ [](DOMAIN disconnects \cap ConnectFailed = {})
    /\ [][ReleaseRuns =>
            \A i \in ToolsFailed \cap Range(mcpClients) :
                disconnects'[i] > disconnects[i]]_vars

\* a release ran over a client whose tools request had failed, next to a
\* server that could not be opened, and the failed catalog is not in the map
C28_Witness ==
    /\ Len(mcpServers) = 2
    /\ mcpServers[1].outcome = "toolsFail"
    /\ mcpServers[1].catalog # {}
    /\ mcpServers[2].outcome = "connectFail"
    /\ initPc = "returned"
    /\ mcpClients = <<1>>
    /\ tools = <<>>
    /\ disconnects[1] >= 1

\* ======================================================================
\* Properties of the ModelRegistry
\* ======================================================================
\* An entry that getLanguageModel registered on demand: its details carry
\* the provider "Local".
OnDemandIds ==
    {id \in DOMAIN modelDetails : modelDetails[id].provider = "Local"}

\* C4: every resolve, however it interleaves with a refresh, runs on the
\* registry exactly as the last completed refresh or resolve left it: it never
\* observes bindings, details and endpoints that are partly cleared or partly
\* re-added.
C4_ResolveSeesWholeSnapshot ==
    /\ ~sawPartial
    /\ Quiescent => Reg = committed

\* a refresh is under way and a resolve has constructed a binding on demand
\* while it was
C4_Witness ==
    /\ \E t \in Tasks : refreshPc[t] \in {"ready", "sready"}
    /\ OnDemandIds # {}

\* C5: in every reachable registry state model.languageModel(id) returns a
\* defined binding for every id, registered or not, also when the on-demand
\* construction throws.
C5_ResolveAlwaysDefined ==
    /\ ~gotUndefined
    /\ Quiescent =>
         \A id \in RequestIds, throws \in BOOLEAN :
             GetLanguageModel(Reg, id, throws).ret # NoBinding

\* after refreshes and an on-demand construction, an id that is not
\* registered and has an endpoint whose construction throws still resolves
C5_Witness ==
    /\ Quiescent
    /\ OnDemandIds # {}
    /\ \E id \in RequestIds :
          /\ ~Has(languageModels, id)
          /\ GetLanguageModel(Reg, id, TRUE).ret # NoBinding
    /\ \E id \in DOMAIN modelEndpointMap : ~Has(languageModels, id)

\* C15: for every registered identifier, built-in or dynamic, resolve
\* returns the binding registered under exactly that identifier, also when
\* another registered identifier contains it.
C15_ExactMatchFirst ==
    Quiescent =>
        \A k \in 1..Len(languageModels), throws \in BOOLEAN :
            LET out == GetLanguageModel(Reg, languageModels[k].id, throws)
            IN  /\ out.ret = languageModels[k].v
                /\ out.reg = Reg

\* a registered identifier is contained in one registered before it, and
\* the two have different bindings
C15_Witness ==
    /\ Quiescent
    /\ \E j, k \in 1..Len(languageModels) :
          /\ j < k
          /\ Includes(Chars(languageModels[j].id), Chars(languageModels[k].id))
          /\ languageModels[j].v # languageModels[k].v

\* key contains id when both are compared without regard to case
ContainsIgnoringCase(key, id) ==
    Includes(ToLowerCase(Chars(key)), ToLowerCase(Chars(id)))

FirstContaining(lm, id) ==
    LET hits == {k \in 1..Len(lm) : ContainsIgnoringCase(lm[k].id, id)}
    IN  IF hits = {} THEN 0 ELSE CHOOSE k \in hits : \A j \in hits : k <= j

\* C16: when the requested id has no exact match and is contained, without
\* regard to case, in some registered identifier, resolve returns the
\* binding of the first such identifier in the registry's order.
C16_SubstringMatchIgnoresCase ==
    Quiescent =>
        \A id \in RequestIds, throws \in BOOLEAN :
            (~Has(languageModels, id) /\ FirstContaining(languageModels, id) # 0)
              => GetLanguageModel(Reg, id, throws).ret =
                   languageModels[FirstContaining(languageModels, id)].v

IsBuiltIn(id) == \E k \in 1..Len(BaseIds) : BaseIds[k] = id

FirstNotBuiltIn(lm) ==
    LET hits == {k \in 1..Len(lm) : ~IsBuiltIn(lm[k].id)}
    IN  IF hits = {} THEN 0 ELSE CHOOSE k \in hits : \A j \in hits : k <= j

\* the requested id matches no registered identifier, exactly or as a
\* substring
Unmatched(lm, id) == ~Has(lm, id) /\ FirstContaining(lm, id) = 0

\* C17: when the requested id matches no registered identifier and some
\* model that is not a built-in is registered, resolve returns the binding
\* of the first registered identifier that is not one of the four built-ins,
\* whatever the names are.
C17_FirstDynamicModel ==
    Quiescent =>
        \A id \in RequestIds, throws \in BOOLEAN :
            (Unmatched(languageModels, id) /\ FirstNotBuiltIn(languageModels) # 0)
              => GetLanguageModel(Reg, id, throws).ret =
                   languageModels[FirstNotBuiltIn(languageModels)].v

\* C18: when only the built-in models are registered and the requested id
\* matches no registered identifier, resolve returns the binding of the
\* default identifier kimi-k2.
C18_DefaultModel ==
    Quiescent =>
        \A id \in RequestIds, throws \in BOOLEAN :
            (Unmatched(languageModels, id) /\ FirstNotBuiltIn(languageModels) = 0)
              => GetLanguageModel(Reg, id, throws).ret =
                   Get(languageModels, defaultModel)

\* C19: resolve of an id that has an endpoint record and no binding
\* constructs the binding from the record, registers it under id and returns
\* it; a second resolve of the id, with no refresh in between, returns the
\* same binding and constructs nothing.
C19_OnDemandIsCached ==
    Quiescent =>
        \A id \in DOMAIN modelEndpointMap :
            ~Has(languageModels, id) =>
                LET first == GetLanguageModel(Reg, id, FALSE)
                IN  /\ first.ret = LocalBinding(id, modelEndpointMap[id].baseURL,
                                                Undefined)
                    /\ Get(first.reg.languageModels, id) = first.ret
                    /\ \A throws \in BOOLEAN :
                          GetLanguageModel(first.reg, id, throws) =
                            [ret |-> first.ret, reg |-> first.reg]

\* a resolve has constructed a binding on demand and no refresh is running
C19_Witness ==
    /\ \A t \in Tasks : refreshPc[t] = "idle"
    /\ \E id \in OnDemandIds :
          /\ MapHas(modelEndpointMap, id)
          /\ Get(languageModels, id) =
                LocalBinding(id, modelEndpointMap[id].baseURL, Undefined)
    /\ \E id \in DOMAIN modelEndpointMap : ~Has(languageModels, id)

\* C20: every registered identifier that is not one of the four built-ins
\* has an endpoint record.
C20_DynamicModelsHaveEndpoints ==
    Quiescent =>
        \A k \in 1..Len(languageModels) :
            ~IsBuiltIn(languageModels[k].id) =>
                MapHas(modelEndpointMap, languageModels[k].id)

\* identifiers bound to a dynamically created backend
DynamicIds(lm) == {lm[k].id : k \in {j \in 1..Len(lm) : lm[j].v.kind = "local"}}

LocalEntryIds(models) ==
    {models[k].id : k \in {j \in 1..Len(models) : IsLocalEntry(models[j])}}

RefreshCompletes(t) ==
    /\ refreshPc[t] \in {"endpoints", "scleared"}
    /\ refreshPc'[t] = "idle"

\* C6: when a refresh completes, every dynamically registered model is one of
\* the models of the active endpoints that refresh read: a model of an
\* endpoint that was deleted or deactivated is no longer registered.
C6_NoStaleModelsAfterRefresh ==
    [][\A t \in Tasks :
          RefreshCompletes(t) =>
              DynamicIds(languageModels') \subseteq LocalEntryIds(fetched[t])]_vars

\* C7: whatever model lists the refreshes fetched, each built-in identifier
\* stays registered and bound to its built-in backend.
C7_BuiltinsKeepTheirBackend ==
    Quiescent =>
        \A k \in 1..Len(BaseIds) :
            Get(languageModels, BaseIds[k]) = BaseBinding(BaseIds[k])

\* ======================================================================
\* Properties of discoverModels
\* ======================================================================
\* a probe that did not produce a list: the request failed, the response
\* was not a success, or its body was malformed
ProbeFailed(o) == o.kind \in {"networkError", "notOk", "notJson"}

\* C12: discoverModels never raises, whatever the two probes do, and gives
\* the empty list when both the primary and the fallback probe failed.
C12_DiscoverNeverRaises ==
    /\ ~discResult.raised
    /\ (discPc = "done" /\ probe.baseUrlIsString
          /\ ProbeFailed(probe.primary) /\ ProbeFailed(probe.fallback))
         => discResult.list = <<>>

\* both probes were tried and failed with different failures
C12_Witness ==
    /\ discPc = "done"
    /\ probe.baseUrlIsString
    /\ probe.primary.kind = "networkError"
    /\ probe.fallback.kind = "notJson"
    /\ discResult = NoResult

\* C24: discoverModels eventually returns, also when the endpoint never
\* responds to a probe.
C24_DiscoverEventuallyReturns == <>(discPc = "done")

\* the primary probe failed the way the fallback is documented for
PrimaryRefused == probe.primary.kind \in {"networkError", "notOk"}

\* C13: when the primary probe fails and the fallback gives a list of
\* records, discoverModels returns the id of each record, or its name when
\* the id is absent, in the endpoint's order; when the primary probe gives a
\* list it returns that list's names in order.
C13_DiscoverReturnsIdentifiers ==
    (discPc = "done" /\ probe.baseUrlIsString) =>
        /\ (PrimaryRefused /\ probe.fallback.kind = "list") =>
              /\ Len(discResult.list) = Len(probe.fallback.records)
              /\ \A k \in 1..Len(probe.fallback.records) :
                    LET rec == probe.fallback.records[k]
                    IN  discResult.list[k] =
                          IF rec.id = Undefined THEN rec.name ELSE rec.id
        /\ probe.primary.kind = "list" =>
              /\ Len(discResult.list) = Len(probe.primary.records)
              /\ \A k \in 1..Len(probe.primary.records) :
                    discResult.list[k] = probe.primary.records[k].name

\* the fallback listed a record with an id and a record with only a name
C13_Witness ==
    /\ discPc = "done"
    /\ probe.baseUrlIsString
    /\ probe.primary.kind = "notOk"
    /\ probe.fallback.kind = "list"
    /\ probe.fallback.records = <<[id |-> "m2", name |-> "m1"],
                                  [id |-> Undefined, name |-> "m1"]>>
    /\ discResult.list = <<"m2", "m1">>

\* ======================================================================
\* Properties of the server manager
\* ======================================================================

\* C8: for every server id there are never two startServer calls, nor a
\* startServer call and a stopServer call, in flight at the same time,
\* whatever the order in which toggleServer, toggleServerStatus and
\* restartServer are invoked.
C8_OneCallInFlightPerServer ==
    \A i \in UiServers :
        /\ Starts(i) <= 1
        /\ ~(Starts(i) >= 1 /\ Stops(i) >= 1)

Prefixes(S) == { SubSeq(q, 1, n) : q \in S, n \in 0..3 } \cap
               UNION { [1..n -> Statuses] : n \in 0..3 }

RestartRuns ==
    { <<"connected", "disconnected", "connecting", "connected">>,
      <<"connected", "disconnected", "connecting", "error">>,
      <<"connected", "connecting", "connected">>,
      <<"connected", "connecting", "error">>,
      <<"connected", "error">> }

IsPrefix(p, q) == Len(p) <= Len(q) /\ SubSeq(q, 1, Len(p)) = p

AsState(st) == IF st = "undefined" THEN "disconnected" ELSE st

Transitions ==
    { <<"disconnected", "connecting">>, <<"connecting", "connected">>,
      <<"connecting", "error">>, <<"connected", "disconnected">>,
      <<"error", "connecting">>, <<"connected", "connecting">> }

\* C10: every change of a server's status made by the manager's actions is
\* one of the listed transitions; in particular connecting is left only for
\* connected or error.
C10_OnlyListedTransitions ==
    [][ \A i \in UiServers :
           AsState(status'[i]) # AsState(status[i])
             => <<AsState(status[i]), AsState(status'[i])>> \in Transitions
      ]_vars

\* C25: updateServer leaves the status of the edited server and of every
\* other server as it was.
C25_UpdateServerKeepsStatus ==
    [][(\E i \in UiServers : UpdateServer(i)) => status' = status]_vars

\* C26: whenever a startServer call made by toggleServer, toggleServerStatus
\* or the delayed callback of restartServer rejects, the server's status is
\* error once the caller has gone on; it is not left in connecting.
C26_StartRejectionSetsError ==
    [][\A i \in UiServers, c \in StartCalls :
          StartServerSettles(i, c, "rejected") => status'[i] = "error"]_vars

\* C27: every binding of a dynamic model in the registry, whichever of
\* refreshModels, refreshModelsServerSide and getLanguageModel constructed it,
\* carries the base URL of its endpoint and the api_key stored for that
\* endpoint.
C27_BindingsCarryCredential ==
    \A k \in 1..Len(languageModels) :
        LET b == languageModels[k].v
        IN  b.kind = "local" =>
              /\ b.baseURL.host \in Endpoints
              /\ b.baseURL = WithV1(BaseUrlOf(b.baseURL.host))
              /\ b.apiKey = ApiKeyOf(b.baseURL.host)

\* the dynamic portion of a registry: the bindings of the local models
DynamicPortion(r) ==
    {r.languageModels[k] : k \in {j \in 1..Len(r.languageModels) :
                                     r.languageModels[j].v.kind = "local"}}

\* C29: when a refreshModels call returns after a call that was started
\* later has returned, and no call is under way any more, the dynamic
\* portion of the registry is still the one the later call registered.
C29_LastStartedRefreshWins ==
    [][\A t \in DOMAIN refreshPc :
          (/\ refreshPc[t] = "endpoints"
           /\ refreshPc'[t] = "idle"
           /\ t \in superseded
           /\ callOrder' = <<>>)
            => DynamicPortion(committed') = DynamicPortion(committed)]_vars

\* C30: the request refreshAvailableModels sends for an existing endpoint is
\* accepted by POST /api/local-models/[id]/models, and the endpoint's stored
\* availableModels becomes the list discoverModels returned.
C30_PageRefreshIsAccepted ==
    (routeCaller = "page" /\ routePc = "done" /\ routeStatus # 404) =>
        /\ routeStatus = 200
        /\ storedModels = discResult.list

\* getModelIDs(): Object.keys(languageModels)
GetModelIDs == Keys(languageModels)

\* C31: whenever no refresh is in the middle of its synchronous part, every
\* identifier getModelIDs returns has an entry in modelDetails.
C31_ModelIdsHaveDetails ==
    Quiescent =>
        \A k \in 1..Len(GetModelIDs) : MapHas(modelDetails, GetModelIDs[k])

\* C32: when two toggles of the endpoint have both written and every toggle
\* has ended, isActive is what it was before them.
C32_TwoTogglesRestore ==
    ((\A t \in Togglers : togglePc[t] = "done") /\ applied = 2)
        => rowIsActive = originalActive

\* C33: for every outcome of the two probes, the list fetchOllamaModels
\* returns is the list discoverModels returns.
C33_ClientMatchesServer ==
    (fetchPc = "done" /\ discPc = "done") => fetchResult = discResult.list

\* the endpoint gave no list: both probes failed, or the base URL could not
\* be used at all
DiscoveryFailed ==
    \/ ~probe.baseUrlIsString
    \/ ProbeFailed(probe.primary) /\ ProbeFailed(probe.fallback)

\* C34: a request with name, baseUrl and userId whose insert succeeds is
\* answered with 201 and creates an inactive endpoint, whatever discovery
\* did; when discovery failed the endpoint's availableModels is empty.
C34_CreateSurvivesDiscoveryFailure ==
    (createPc = "done" /\ createStatus # 400 /\ ~insertFailed) =>
        /\ createStatus = 201
        /\ createdRow.present
        /\ ~createdRow.isActive
        /\ DiscoveryFailed => createdRow.availableModels = <<>>

\* an endpoint was created although one probe was refused and the other
\* answered with a body that is not JSON
C34_Witness ==
    /\ createPc = "done"
    /\ createStatus = 201
    /\ probe.baseUrlIsString
    /\ probe.primary.kind = "networkError"
    /\ probe.fallback.kind = "notJson"
    /\ createdRow = NewModel(<<>>)

\* the registry holding the four built-in models and nothing else
BuiltInsOnly ==
    Registry(AssignBase(<<>>, 1), AssignBaseDetails(EmptyMap, 1), EmptyMap)

\* refreshModels call t got { models: [] } from getAllModels and has reached
\* its last statement
FailedRefreshEnds(t) ==
    /\ refreshPc[t] = "endpoints"
    /\ fetched[t] = <<>>

\* C35: when refreshModels returns after its model-list fetch failed, the
\* registry holds exactly the four built-in models: no dynamic binding, no
\* dynamic details and no endpoint record is left.
C35_FailedFetchLeavesBuiltIns ==
    [][\A t \in DOMAIN refreshPc :
          (FailedRefreshEnds(t) /\ refreshPc'[t] = "idle")
            => committed' = BuiltInsOnly]_vars

\* a refresh whose fetch failed has rebuilt a registry that held dynamic
\* models when the refresh was called
C35_Witness ==
    \E t \in DOMAIN refreshPc :
        /\ FailedRefreshEnds(t)
        /\ DynamicPortion(committed) # {}
        /\ DOMAIN committed.modelEndpointMap # {}
        /\ Reg = BuiltInsOnly

\* C36: the selected ids are ids of configured servers, none is there twice,
\* and removeServer takes the removed id out of the selection.
C36_SelectionWithinServers ==
    /\ [](Range(selectedServers) \subseteq servers)
    /\ [](Len(selectedServers) = Cardinality(Range(selectedServers)))
    /\ [][\A i \in UiServers :
            RemoveServer(i) => i \notin Range(selectedServers')]_vars

\* a server that was started by selecting it has been removed while another
\* server is selected
C36_Witness ==
    /\ servers = {2}
    /\ selectedServers = <<2>>
    /\ pending[1]["start/toggleServer"] = 1

\* nothing but the selection changes
OnlySelectionChanges ==
    /\ status' = status
    /\ pending' = pending
    /\ timers' = timers
    /\ servers' = servers

\* C37: deselecting a server, by toggleServer or by clearAllServers, changes
\* the selection only: no status changes and no stopServer or startServer
\* call is made.  Selecting a server calls startServer, and shows it as
\* connecting, exactly when its status is undefined, disconnected or error.
C37_DeselectOnlyDeselects ==
    /\ [][\A i \in UiServers :
            (ToggleServer(i) /\ i \in Range(selectedServers))
              => OnlySelectionChanges]_vars
    /\ [][ClearAllServers => OnlySelectionChanges]_vars
    /\ [][\A i \in UiServers :
            (ToggleServer(i) /\ i \notin Range(selectedServers)) =>
              IF status[i] \in {"undefined", "disconnected", "error"}
                THEN /\ pending' = AddCall(i, "start/toggleServer")
                     /\ status' = [status EXCEPT ![i] = "connecting"]
                ELSE /\ pending' = pending
                     /\ status' = status]_vars

\* a server was deselected while the start that selecting it began is still
\* in flight, and a connected server is selected
C37_Witness ==
    \E i, j \in servers :
        /\ i \notin Range(selectedServers)
        /\ pending[i]["start/toggleServer"] = 1
        /\ status[i] = "connecting"
        /\ j \in Range(selectedServers)
        /\ status[j] = "connected"
        /\ InFlight(j) = 0

\* ======================================================================
\* ModelPicker
\* ======================================================================
PickerFrame == UNCHANGED <<probe, discPc, discResult, routeVars, toggleVars,
                           fetchVars, createVars, connVars, regVars, uiVars>>

\* the selection the parent restores from local storage
StoredSelections == {"kimi-k2", "m1", "zzz"}

\* the ids handleModelChange is asked for
PickerChoices == {"kimi-k2", "m1", "zzz"}

\* the refresh the picker starts when it mounts
PickerRefresh == {1}

\* first render: useState(getModelIDs()), selectedModel from the parent
MountPicker(sel) ==
    /\ isBrowser
    /\ pickerPc = "unmounted"
    /\ selectedModel' = sel
    /\ modelIds' = GetModelIDs
    /\ pickerPc' = "rendered"
    /\ UNCHANGED pickerDid
    /\ PickerFrame

\* update: setModelIds(getModelIDs()), on "local-models-updated" and after
\* the refresh the picker starts on mount
PickerUpdate ==
    /\ pickerPc # "unmounted"
    /\ modelIds # GetModelIDs
    /\ modelIds' = GetModelIDs
    /\ pickerPc' = "rendered"
    /\ UNCHANGED <<selectedModel, pickerDid>>
    /\ PickerFrame

\* const validModelId = modelIds.includes(selectedModel) ? selectedModel
\*                                                      : defaultModel
SelectionAsIs(ids, sel) == sel
ValidModelId(ids, sel) == IF sel \in Range(ids) THEN sel ELSE defaultModel

\* useEffect: if (selectedModel !== validModelId) setSelectedModel(validModelId)
PickerEffect ==
    /\ pickerPc = "rendered"
    /\ selectedModel' = ValidModelId(modelIds, selectedModel)
    /\ pickerDid' = IF selectedModel # ValidModelId(modelIds, selectedModel)
                      THEN "reset" ELSE pickerDid
    /\ pickerPc' = "idle"
    /\ UNCHANGED modelIds
    /\ PickerFrame

\* handleModelChange
HandleModelChange(modelId) ==
    /\ pickerPc # "unmounted"
    /\ IF modelId \in Range(modelIds)
         THEN /\ selectedModel' = modelId
              /\ pickerPc' = "rendered"
              /\ pickerDid' = "changed"
         ELSE /\ pickerDid' = "refused"
              /\ UNCHANGED <<selectedModel, pickerPc>>
    /\ UNCHANGED modelIds
    /\ PickerFrame

NextPicker ==
    \/ \E sel \in StoredSelections : MountPicker(sel)
    \/ PickerUpdate
    \/ PickerEffect
    \/ \E id \in PickerChoices : HandleModelChange(id)
    \/ \E t \in PickerRefresh : RefreshModelsCall(t)
    \/ \E t \in PickerRefresh, ok \in BOOLEAN, rs \in RowSets : GetAllModelsDone(t, ok, rs)
    \/ \E t \in PickerRefresh : ClearModels(t)
    \/ \E t \in PickerRefresh : AddBaseModels(t)
    \/ \E t \in PickerRefresh : RegisterEndpointsStep(t)
    \/ \E t \in PickerRefresh : \E broken \in SUBSET EntryIds(fetched[t]) :
          CreateModelsStep(t, broken)

\* the picker in a browser tab whose registry is refreshed
InitPicking ==
    /\ QuietPage
    /\ probe = QuietProbe
    /\ mcpServers = <<>>
    /\ isBrowser = TRUE
    /\ InitConn
    /\ InitRegistryFor(PickerRefresh)
    /\ InitUI
    /\ InitDiscovery
    /\ InitRoute
    /\ InitPage
SpecPicker == InitPicking /\ [][NextPicker]_vars

\* C38: once the picker's effect has run, the selected model is in the
\* picker's model id list or is the default model kimi-k2: a selection that
\* is not in the list is reset to the default.  handleModelChange sets the
\* selection to the requested id when the list has it and leaves it alone
\* otherwise.
C38_SelectionValidOrDefault ==
    /\ [](pickerPc = "idle" =>
            \/ selectedModel \in Range(modelIds)
            \/ selectedModel = "kimi-k2")
    /\ [][PickerEffect =>
            selectedModel' = IF selectedModel \in Range(modelIds)
                               THEN selectedModel ELSE "kimi-k2"]_vars
    /\ [][\A id \in PickerChoices : HandleModelChange(id) =>
            \/ id \in Range(modelIds) /\ selectedModel' = id
            \/ id \notin Range(modelIds) /\ selectedModel' = selectedModel]_vars

\* the picker's effect has reset a selection that was off its list: the
\* selection is the default, and the list holds a local model
C38_Witness ==
    /\ pickerDid = "reset"
    /\ pickerPc = "idle"
    /\ selectedModel = defaultModel
    /\ \E k \in 1..Len(modelIds) : modelIds[k] \notin Range(BaseIds)
====
